---- MODULE Spec2Model ----
(***************************************************************************)
(* State-machine model of the two RCON clients of n8n-nodes-rcon:          *)
(*   RconClient          (Source RCON over TCP,   src/unnamed/part_004)    *)
(*   BattlEyeRconClient  (BattlEye RCON over UDP, src/unnamed/part_005)    *)
(*                                                                         *)
(* One client object is modelled; `engine` says which class it is.  The    *)
(* JavaScript run-to-completion scheduling is modelled explicitly:         *)
(*   - a socket event or timer callback is one action and starts only when *)
(*     the promise-job queue `queue` is empty and no caller code runs;     *)
(*   - promise reactions are jobs in `queue`, run in FIFO order, one       *)
(*     action per job.  createConnection/createSocket, authenticate and    *)
(*     waitForResponse are async methods returning `new Promise(...)`: the *)
(*     promise the caller of such a method awaits is settled by a reaction *)
(*     ("outer") on the inner promise, subscribed by a job of its own      *)
(*     ("link"); the awaiting method resumes in a third job ("cont");      *)
(*   - caller code runs synchronously (`callerIn`) from the start of a     *)
(*     task of its own or from a reaction to a promise the client gave it, *)
(*     makes API calls, and ends or yields to the job queue.               *)
(* Event listeners registered by the caller are passive observers.         *)
(***************************************************************************)
EXTENDS Integers, Sequences, FiniteSets, TLC

\* ---------------------------------------------------------------- bounds
MaxCalls == 3         \* connect() and execute() calls that pass their guard
MaxFrags == 2         \* response fragments a Source server delivers
MaxRead == 2          \* packets framed out of one Source read
MaxHeartbeats == 1    \* heartbeat ticks that send
MaxSendPending == 1   \* datagram sends whose callback is still to come

\* ------------------------------------------------------ program constants
AUTH_FAILURE_ID == -1
SERVERDATA_AUTH == 3
SERVERDATA_EXECCOMMAND == 2
SERVERDATA_RESPONSE_VALUE == 0
MaxRequestId == 999999
SeqModulus == 256

VARIABLES
    engine,             \* "source" | "battleye": the class of the client
    state,              \* this.state
    socket,             \* this.socket, with the transport's view of it
    requestId,          \* RconClient.requestId
    pendingResponses,   \* RconClient.pendingResponses (insertion-ordered Map)
    receiveBuffer,      \* RconClient.receiveBuffer: "empty" or "partial"; its
                        \* bytes where the inbound stream is followed byte
                        \* by byte (FrameSpec)
    sequenceNumber,     \* BattlEyeRconClient.sequenceNumber
    pendingCommands,    \* BattlEyeRconClient.pendingCommands
    heartbeatInterval,  \* BattlEyeRconClient.heartbeatInterval is not null
    heartbeatTimers,    \* interval timers armed by startHeartbeat
    sendCallbacks,      \* BattlEye sends whose callback has not run, oldest first
    authHandler,        \* BattlEyeRconClient._authHandler: attempt or 0
    attempts,           \* one record per connect() call past the guard
    execs,              \* one record per execute() call past the guard
    queue,              \* promise-job queue
    sent,               \* packets handed to the transport by this step
    callerIn,           \* caller code is running
    lastCall,           \* the API call made by this step, and its result
    settled,            \* the promise this step settles for the caller
    emitted,            \* events emitted by this step, in order
    uncaught,           \* exception thrown out of an event handler
    stream,             \* bytes the Source server has written, not yet read
    received,           \* bytes handed to the data / message handler: all the
                        \* reads so far (FrameSpec), the datagram of this step
    framed              \* packets the framing loop has yielded so far

vars == <<engine, state, socket, requestId, pendingResponses, receiveBuffer,
          sequenceNumber,
          pendingCommands, heartbeatInterval, heartbeatTimers, sendCallbacks,
          authHandler, attempts, execs,
          queue, sent, callerIn, lastCall, settled, emitted, uncaught,
          stream, received, framed>>

NoSocket == [st |-> "none", owner |-> 0]
NoCall == [op |-> "none", res |-> "none", cause |-> "none"]
NoSettle == [op |-> "none", i |-> 0, res |-> "none", val |-> <<>>,
             cause |-> "none", rx |-> <<>>]

Cur ==
    [engine |-> engine, state |-> state, socket |-> socket,
     requestId |-> requestId, pendingResponses |-> pendingResponses,
     receiveBuffer |-> receiveBuffer,
     sequenceNumber |-> sequenceNumber, pendingCommands |-> pendingCommands,
     heartbeatInterval |-> heartbeatInterval,
     heartbeatTimers |-> heartbeatTimers, sendCallbacks |-> sendCallbacks,
     authHandler |-> authHandler,
     attempts |-> attempts, execs |-> execs, queue |-> queue, sent |-> <<>>,
     callerIn |-> callerIn, lastCall |-> NoCall, settled |-> NoSettle,
     emitted |-> <<>>,
     uncaught |-> uncaught,
     stream |-> stream, received |-> <<>>, framed |-> <<>>]

Commit(m) ==
    /\ engine' = m.engine
    /\ state' = m.state
    /\ socket' = m.socket
    /\ requestId' = m.requestId
    /\ pendingResponses' = m.pendingResponses
    /\ receiveBuffer' = m.receiveBuffer
    /\ sequenceNumber' = m.sequenceNumber
    /\ pendingCommands' = m.pendingCommands
    /\ heartbeatInterval' = m.heartbeatInterval
    /\ heartbeatTimers' = m.heartbeatTimers
    /\ sendCallbacks' = m.sendCallbacks
    /\ authHandler' = m.authHandler
    /\ attempts' = m.attempts
    /\ execs' = m.execs
    /\ queue' = m.queue
    /\ sent' = m.sent
    /\ callerIn' = m.callerIn
    /\ lastCall' = m.lastCall
    /\ settled' = m.settled
    /\ emitted' = m.emitted
    /\ uncaught' = m.uncaught
    /\ stream' = m.stream
    /\ received' = m.received
    /\ framed' = m.framed

\* ------------------------------------------------------------- utilities
\* Only the last element.
JoinLast(ss) == IF ss = <<>> THEN <<>> ELSE ss[Len(ss)]

RECURSIVE Join(_)
Join(ss) == IF ss = <<>> THEN <<>> ELSE Head(ss) \o Join(Tail(ss))

RemoveAt(s, i) == SubSeq(s, 1, i - 1) \o SubSeq(s, i + 1, Len(s))

\* Promise jobs.  t: "link"  the async method's promise adopts the inner one
\*                  "outer" the reaction that settles the async method's promise
\*                  "cont"  connect()/execute() resumes after its await
\*                  "caller" / "disconnected"  the caller's reaction to a
\*                  settled connect()/execute() / disconnect() promise
Job(t, who, i) == [t |-> t, who |-> who, i |-> i]

Enqueue(m, job) == [m EXCEPT !.queue = Append(@, job)]

\* The caller's reaction to a settled connect()/execute() promise.
NotifyCaller(m) == Enqueue(m, Job("caller", "", 0))

\* The inner promise of the call awaited by attempt / execute i has settled:
\* its reaction is queued if the async method's promise has adopted it.
SettleInner(m, who, i) ==
    LET linked == IF who = "connect" THEN m.attempts[i].linked
                  ELSE m.execs[i].linked
    IN IF linked THEN Enqueue(m, Job("outer", who, i)) ELSE m

\* An async method returns its inner promise to connect()/execute().
ReturnInner(m, who, i) == Enqueue(m, Job("link", who, i))

\* --------------------------------------------------- promises of connect()
\* attempts[k].pc: "conn"   awaiting createConnection()/createSocket()
\*                 "connOk" / "connErr"  its inner promise has settled
\*                 "auth"   awaiting authenticate()
\*                 "authOk" / "authErr"  its inner promise has settled
\*                 "ok" / "fail"         connect() resolved / rejected
\* A settled call keeps its slot; what it settled with is in `settled`.
ResolveConn(m, k) ==
    IF m.attempts[k].pc = "conn"
    THEN SettleInner([m EXCEPT !.attempts[k].pc = "connOk"], "connect", k)
    ELSE m

RejectConn(m, k, err) ==
    IF m.attempts[k].pc = "conn"
    THEN SettleInner([m EXCEPT !.attempts[k].pc = "connErr",
                               !.attempts[k].err = err], "connect", k)
    ELSE m

ResolveAuth(m, k) ==
    IF m.attempts[k].pc = "auth"
    THEN SettleInner([m EXCEPT !.attempts[k].pc = "authOk"], "connect", k)
    ELSE m

RejectAuth(m, k, err) ==
    IF m.attempts[k].pc = "auth"
    THEN SettleInner([m EXCEPT !.attempts[k].pc = "authErr",
                               !.attempts[k].err = err], "connect", k)
    ELSE m

\* --------------------------------------------------- promises of execute()
\* execs[e].pc: "wait"  awaiting waitForResponse()
\*              "resOk" / "resErr"  its inner promise has settled
\*              "resolved" / "rejected"  execute() settled
ResolveExec(m, e, val) ==
    IF m.execs[e].pc = "wait"
    THEN SettleInner([m EXCEPT !.execs[e].pc = "resOk",
                               !.execs[e].val = val], "execute", e)
    ELSE m

RejectExec(m, e, err) ==
    IF m.execs[e].pc = "wait"
    THEN SettleInner([m EXCEPT !.execs[e].pc = "resErr",
                               !.execs[e].cause = err], "execute", e)
    ELSE m

\* ---------------------------------------------------------------- events
\* An emitted event records what a listener sees when it is called: the
\* size of the correlation table and the number of packets the running
\* step has sent so far.
InFlight(m) == Len(m.pendingResponses) + Len(m.pendingCommands)

\* The states a connect() goes through, and how far along them the events
\* emitted since a connect() call have come: p events of the order seen and
\* nothing else (4: the state is Authenticated; 5: `authenticated` has been
\* emitted after that), or -1 once an event has broken the order.
ConnectOrder == <<"connecting", "connected", "authenticating", "authenticated">>

Follow(p, ev, a) ==
    IF ev = "stateChange"
    THEN IF p \in 0..3 /\ a = ConnectOrder[p + 1] THEN p + 1 ELSE -1
    ELSE IF ev = "authenticated" THEN IF p = 4 THEN 5 ELSE -1
    ELSE p

emit(m, ev, a, b) ==
    [m EXCEPT !.emitted = Append(@, [ev |-> ev, a |-> a, b |-> b,
                                     pend |-> InFlight(m),
                                     nsent |-> Len(m.sent)]),
              !.attempts = [k \in 1..Len(@) |->
                  IF @[k].pc \in {"ok", "fail"} THEN @[k]
                  ELSE [@[k] EXCEPT !.rx.seen = Follow(@, ev, a)]]]

\* ------------------------------------------------------------ setState
\* A setState that emits stateChange whether or not the state differs.
setStateAlways(m, s) == emit([m EXCEPT !.state = s], "stateChange", s, m.state)

setState(m, s) ==
    LET oldState == m.state
        m1 == [m EXCEPT !.state = s]
    IN IF oldState # s THEN emit(m1, "stateChange", s, oldState) ELSE m1

\* A guard that only asks for a socket.
hasSocket(m) == m.socket.st # "none"

isAuthenticated(m) == m.state = "authenticated"


\* ======================================================================
\* Source RCON engine (RconClient)
\* ======================================================================

\* The configured password and the bodies a server puts in its packets.
Password == <<112, 119>>
Bodies == {<<102>>, <<98>>}
\* Lengths of the command strings passed to execute().
CommandLens == {4100, 4101}
MIN_PACKET_SIZE == 10
MAX_PACKET_SIZE == 4110

\* Map.get / Map.set / Map.delete on the insertion-ordered table.
KeyIndex(tbl, id) ==
    IF \E i \in 1..Len(tbl) : tbl[i].id = id
    THEN CHOOSE i \in 1..Len(tbl) : tbl[i].id = id
    ELSE 0

MapSet(tbl, entry) ==
    IF KeyIndex(tbl, entry.id) = 0 THEN Append(tbl, entry)
    ELSE [tbl EXCEPT ![KeyIndex(tbl, entry.id)] = entry]

MapDelete(tbl, id) ==
    IF KeyIndex(tbl, id) = 0 THEN tbl ELSE RemoveAt(tbl, KeyIndex(tbl, id))

\* A counter that wraps to 0.
getNextRequestIdFromZero(m) ==
    [m EXCEPT !.requestId = IF @ + 1 > MaxRequestId THEN 0 ELSE @ + 1]

getNextRequestId(m) ==
    [m EXCEPT !.requestId = IF @ + 1 > MaxRequestId THEN 1 ELSE @ + 1]

\* A sendPacket without the size limit.
sendPacketThrowsUnlimited(m, bodyLen) ==
    IF m.socket.st = "none" THEN "SocketError" ELSE "none"

\* sendPacket: the error it throws ("none" when it writes), and the write.
sendPacketThrows(m, bodyLen) ==
    LET size == 4 + 4 + bodyLen + 2
    IN IF size > MAX_PACKET_SIZE THEN "InvalidPacket"
       ELSE IF m.socket.st = "none" THEN "SocketError"
       ELSE "none"

\* A packet handed to the transport records the size of the correlation
\* table at that moment.
sendPacket(m, id, type, bodyLen, by) ==
    [m EXCEPT !.sent = Append(@, [id |-> id, type |-> type, len |-> bodyLen,
                                  by |-> by, pend |-> InFlight(m)])]

\* The resolve / reject closures stored in a pendingResponses entry: each
\* clears the timer of its own promise and settles it.
resolveEntry(m, p, responses) ==
    IF p.kind = "auth"
    THEN ResolveAuth([m EXCEPT !.attempts[p.owner].authTimer = FALSE], p.owner)
    ELSE ResolveExec([m EXCEPT !.execs[p.owner].timer = FALSE], p.owner,
                     responses)

rejectEntry(m, p, err) ==
    IF p.kind = "auth"
    THEN RejectAuth([m EXCEPT !.attempts[p.owner].authTimer = FALSE], p.owner,
                    err)
    ELSE RejectExec([m EXCEPT !.execs[p.owner].timer = FALSE], p.owner, err)

RECURSIVE rejectAll(_, _, _)
rejectAll(m, entries, err) ==
    IF entries = <<>> THEN m
    ELSE rejectAll(rejectEntry(m, Head(entries), err), Tail(entries), err)

\* A teardown that leaves the receive buffer as it is.
cleanupSrcKeepsBuffer(m) ==
    LET m1 == [m EXCEPT !.socket = NoSocket]
        m2 == rejectAll(m1, m1.pendingResponses, "ConnectionFailed")
    IN [m2 EXCEPT !.pendingResponses = <<>>]

cleanupSrc(m) ==
    LET m1 == [m EXCEPT !.socket = NoSocket]
        m2 == rejectAll(m1, m1.pendingResponses, "ConnectionFailed")
    IN [m2 EXCEPT !.pendingResponses = <<>>, !.receiveBuffer = "empty"]

authenticateSrc(m, k) ==
    LET m1 == setState(m, "authenticating")
        authId == m1.requestId
        m2 == getNextRequestId(m1)
        m3 == [m2 EXCEPT !.attempts[k].pc = "auth",
                         !.attempts[k].linked = FALSE,
                         !.attempts[k].authId = authId,
                         !.attempts[k].authTimer = TRUE,
                         !.pendingResponses =
                             MapSet(@, [id |-> authId, terminatorId |-> 0,
                                        responses |-> <<>>, kind |-> "auth",
                                        owner |-> k])]
        thrown == sendPacketThrows(m3, Len(Password))
    IN ReturnInner(
           IF thrown # "none" THEN RejectAuth(m3, k, thrown)
           ELSE sendPacket(m3, authId, SERVERDATA_AUTH, Len(Password),
                           "connect"),
           "connect", k)

waitForResponseSrc(m, e, commandId, terminatorId) ==
    ReturnInner(
        [m EXCEPT !.execs[e].pc = "wait", !.execs[e].timer = TRUE,
                  !.pendingResponses =
                      MapSet(@, [id |-> commandId,
                                 terminatorId |-> terminatorId,
                                 responses |-> <<>>, kind |-> "exec",
                                 owner |-> e])],
        "execute", e)

\* The record of one execute() call.  rx is history, not program state: the
\* response bodies the server delivered for this call while it was in
\* flight, and whether its terminator / its response has been delivered
\* (kept until the call settles); whether its timer has fired, and whether a
\* packet carrying one of its ids has been delivered after that (kept, with
\* the ids, after the call has settled).
ExecRec(pc, cid, tid) ==
    [pc |-> pc, linked |-> FALSE, cid |-> cid, tid |-> tid, timer |-> FALSE,
     val |-> <<>>, cause |-> "none",
     rx |-> [frags |-> <<>>, term |-> FALSE, timedOut |-> FALSE,
             late |-> FALSE]]

\* execute()'s catch block when a send throws: the call is rejected at once.
executeCatch(m, thrown) ==
    [m EXCEPT !.execs = Append(@, ExecRec("rejected", 0, 0)),
              !.lastCall.cause = thrown]

\* An execute that writes the terminator packet before the command packet.
executeSrcTerminatorFirst(m, len) ==
    LET e == Len(m.execs) + 1
        commandId == m.requestId
        m1 == getNextRequestId(m)
        terminatorId == m1.requestId
        m2 == getNextRequestId(m1)
        thrown1 == sendPacketThrows(m2, len)
        m3 == sendPacket(m2, terminatorId, SERVERDATA_RESPONSE_VALUE, 0,
                         "execute")
        m4 == sendPacket(m3, commandId, SERVERDATA_EXECCOMMAND, len, "execute")
    IN IF thrown1 # "none" THEN executeCatch(m2, thrown1)
       ELSE waitForResponseSrc(
                [m4 EXCEPT !.execs = Append(@, ExecRec("wait", commandId,
                                                       terminatorId))],
                e, commandId, terminatorId)

executeSrc(m, len) ==
    LET e == Len(m.execs) + 1
        commandId == m.requestId
        m1 == getNextRequestId(m)
        terminatorId == m1.requestId
        m2 == getNextRequestId(m1)
        thrown1 == sendPacketThrows(m2, len)
        m3 == sendPacket(m2, commandId, SERVERDATA_EXECCOMMAND, len, "execute")
        thrown2 == sendPacketThrows(m3, 0)
        m4 == sendPacket(m3, terminatorId, SERVERDATA_RESPONSE_VALUE, 0,
                         "execute")
    IN IF thrown1 # "none" THEN executeCatch(m2, thrown1)
       ELSE IF thrown2 # "none" THEN executeCatch(m3, thrown2)
       ELSE waitForResponseSrc(
                [m4 EXCEPT !.execs = Append(@, ExecRec("wait", commandId,
                                                       terminatorId))],
                e, commandId, terminatorId)

\* The oldest entry, whatever its terminatorId.
TerminatorIndexOldest(tbl, id) == IF tbl = <<>> \/ id <= 0 THEN 0 ELSE 1

\* First entry, in iteration order, whose terminatorId is the packet's id.
TerminatorIndex(tbl, id) ==
    LET hits == {i \in 1..Len(tbl) :
                    tbl[i].terminatorId # 0 /\ tbl[i].terminatorId = id}
    IN IF hits = {} THEN 0 ELSE CHOOSE i \in hits : \A j \in hits : i <= j

handlePacket(m, packet) ==
    LET tbl == m.pendingResponses
        i == KeyIndex(tbl, packet.id)
        t == TerminatorIndex(tbl, packet.id)
    IN IF packet.id = AUTH_FAILURE_ID THEN
           IF tbl # <<>>
           THEN rejectEntry([m EXCEPT !.pendingResponses =
                                         MapDelete(@, tbl[1].id)],
                            tbl[1], "AuthFailed")
           ELSE m
       ELSE IF i = 0 THEN
           IF t # 0
           THEN resolveEntry([m EXCEPT !.pendingResponses =
                                          MapDelete(@, tbl[t].id)],
                             tbl[t], tbl[t].responses)
           ELSE m
       ELSE IF m.state = "authenticating" THEN
           resolveEntry([m EXCEPT !.pendingResponses =
                                      MapDelete(@, packet.id)],
                        tbl[i], <<>>)
       ELSE IF packet.type = SERVERDATA_RESPONSE_VALUE THEN
           IF tbl[i].terminatorId # 0 /\ packet.id = tbl[i].terminatorId
           THEN resolveEntry([m EXCEPT !.pendingResponses =
                                          MapDelete(@, tbl[i].id)],
                             tbl[i], tbl[i].responses)
           ELSE [m EXCEPT !.pendingResponses[i].responses =
                              Append(@, packet.body)]
       ELSE m

\* History of what the server delivered (no effect on the program): a
\* type-0 packet carrying the command id of an execute in flight is one of
\* its fragments, a packet carrying its terminator id ends its response; a
\* packet with id -1, or a type-2 packet with the auth id, received while
\* Authenticating is the verdict on the authentication in progress.
observePacket(m, packet) ==
    [m EXCEPT
       !.execs = [e \in 1..Len(@) |->
          IF @[e].rx.timedOut /\ packet.id \in {@[e].cid, @[e].tid}
          THEN [@[e] EXCEPT !.rx.late = TRUE]
          ELSE IF @[e].pc # "wait" THEN @[e]
          ELSE IF packet.id = @[e].tid THEN [@[e] EXCEPT !.rx.term = TRUE]
          ELSE IF packet.id = @[e].cid
                  /\ packet.type = SERVERDATA_RESPONSE_VALUE
               THEN [@[e] EXCEPT !.rx.frags = Append(@, packet.body)]
          ELSE @[e]],
       !.attempts = [k \in 1..Len(@) |->
          IF m.state # "authenticating"
             \/ @[k].pc \notin {"auth", "authOk", "authErr"} THEN @[k]
          ELSE IF packet.id = AUTH_FAILURE_ID
               THEN [@[k] EXCEPT !.rx.fail = TRUE]
          ELSE IF packet.id = @[k].authId
                  /\ packet.type = SERVERDATA_EXECCOMMAND
               THEN [@[k] EXCEPT !.rx.ok = TRUE]
          ELSE @[k]]]

\* handleData, at the level of the packets its framing loop yields from
\* one read: each is dispatched in turn, synchronously.
RECURSIVE handleData(_, _)
handleData(m, packets) ==
    IF packets = <<>> THEN m
    ELSE handleData(handlePacket(observePacket(m, Head(packets)),
                                 Head(packets)),
                    Tail(packets))

\* ---- the Source wire format, byte by byte
\* Buffer.readInt32LE / writeInt32LE at byte offset o (from 0): 32-bit two's
\* complement, little-endian.
readInt32LE(bytes, o) ==
    bytes[o + 1] + 256 * bytes[o + 2] + 65536 * bytes[o + 3]
      + 16777216 * (IF bytes[o + 4] >= 128 THEN bytes[o + 4] - 256
                    ELSE bytes[o + 4])

writeInt32LE(v) ==
    <<v % 256, (v \div 256) % 256, (v \div 65536) % 256,
      (v \div 16777216) % 256>>

\* Buffer.toString('ascii'), the default encoding: one character per byte,
\* the high bit of the byte dropped.
toStringAscii(bytes) == [i \in 1..Len(bytes) |-> bytes[i] % 128]

\* The bytes sendPacket builds for a packet: size, id, type, body, two
\* null bytes.
encodePacket(id, type, body) ==
    writeInt32LE(4 + 4 + Len(body) + 2) \o writeInt32LE(id)
      \o writeInt32LE(type) \o body \o <<0, 0>>

\* A parsePacket whose body runs to the end of the packet, padding included.
parsePacketWithPadding(size, buffer) ==
    [size |-> size, id |-> readInt32LE(buffer, 0),
     type |-> readInt32LE(buffer, 4),
     body |-> toStringAscii(SubSeq(buffer, 9, Len(buffer)))]

\* parsePacket on the size bytes that follow the size field.
parsePacket(size, buffer) ==
    LET bodyLength == size - 10
    IN [size |-> size, id |-> readInt32LE(buffer, 0),
        type |-> readInt32LE(buffer, 4),
        body |-> toStringAscii(SubSeq(buffer, 9, 8 + bodyLength))]

\* A framing loop that stops at a size field out of range and keeps the
\* buffer.
RECURSIVE frameLoopKeepsBuffer(_, _)
frameLoopKeepsBuffer(buffer, out) ==
    IF Len(buffer) < 4 THEN [buffer |-> buffer, packets |-> out]
    ELSE LET size == readInt32LE(buffer, 0)
         IN IF size < MIN_PACKET_SIZE \/ size > MAX_PACKET_SIZE
            THEN [buffer |-> buffer, packets |-> out]
            ELSE IF Len(buffer) < size + 4
            THEN [buffer |-> buffer, packets |-> out]
            ELSE frameLoopKeepsBuffer(
                     SubSeq(buffer, size + 5, Len(buffer)),
                     Append(out, parsePacket(size,
                                             SubSeq(buffer, 5, size + 4))))

\* The while loop of handleData on the receive buffer: what it leaves in the
\* buffer and the packets it hands to handlePacket, in order.
RECURSIVE frameLoop(_, _)
frameLoop(buffer, out) ==
    IF Len(buffer) < 4 THEN [buffer |-> buffer, packets |-> out]
    ELSE LET size == readInt32LE(buffer, 0)
         IN IF size < MIN_PACKET_SIZE \/ size > MAX_PACKET_SIZE
            THEN [buffer |-> <<>>, packets |-> out]
            ELSE IF Len(buffer) < size + 4
            THEN [buffer |-> buffer, packets |-> out]
            ELSE frameLoop(SubSeq(buffer, size + 5, Len(buffer)),
                           Append(out, parsePacket(size,
                                                   SubSeq(buffer, 5,
                                                          size + 4))))

\* handleData on one read: the read is appended to the buffer, the loop
\* frames what is complete, and each packet is dispatched.
handleDataBytes(m, data) ==
    LET r == frameLoop(m.receiveBuffer \o data, <<>>)
        m1 == handleData(m, [i \in 1..Len(r.packets) |->
                                [id |-> r.packets[i].id,
                                 type |-> r.packets[i].type,
                                 body |-> r.packets[i].body]])
    IN [m1 EXCEPT !.receiveBuffer = r.buffer,
                  !.received = m.received \o data,
                  !.framed = @ \o r.packets]


\* ======================================================================
\* BattlEye RCON engine (BattlEyeRconClient)
\* ======================================================================

\* Text bytes a server puts after the sequence byte.
Texts == {<<>>, <<65>>, <<255>>}

\* Buffer.toString('utf8') on the bytes used here: an ASCII byte is itself,
\* a byte that cannot start a UTF-8 sequence becomes U+FFFD.
toStringUtf8(bytes) ==
    [i \in 1..Len(bytes) |->
        IF bytes[i] < 128 THEN bytes[i] ELSE 65533]

\* A counter that is never advanced.
getNextSequenceNumberStuck(m) == m

\* A counter that goes on past 255.
getNextSequenceNumberNoWrap(m) == [m EXCEPT !.sequenceNumber = @ + 1]

getNextSequenceNumber(m) ==
    [m EXCEPT !.sequenceNumber = (@ + 1) % SeqModulus]

\* BattlEye sendPacket: throws SocketError without a socket, else sends.
sendPacketBEThrows(m) == IF m.socket.st = "none" THEN "SocketError" ELSE "none"

\* socket.send with its callback: the callback runs later, as a task of its
\* own.  At most MaxSendPending callbacks are followed; a send beyond that
\* is one whose callback reports no error, which does nothing.  Of the
\* packet a callback belongs to, only whether it was a heartbeat is kept.
sendPacketBE(m, payloadType, seq, textLen, by) ==
    [m EXCEPT !.sent = Append(@, [id |-> seq, type |-> payloadType,
                                  len |-> textLen, by |-> by,
                                  pend |-> InFlight(m)]),
              !.sendCallbacks =
                  IF Len(@) < MaxSendPending
                  THEN Append(@, IF by = "heartbeat" THEN by ELSE "packet")
                  ELSE @]

\* The callback passed to socket.send, for the packet sent by `by`.
sendCallback(m, by, error) ==
    IF error THEN emit(m, "error", "SocketError", by) ELSE m

\* A stopHeartbeat that forgets the timer without clearing it.
stopHeartbeatKeepsTimer(m) == [m EXCEPT !.heartbeatInterval = FALSE]

stopHeartbeat(m) ==
    IF m.heartbeatInterval
    THEN [m EXCEPT !.heartbeatTimers = @ - 1, !.heartbeatInterval = FALSE]
    ELSE m

startHeartbeat(m) ==
    [stopHeartbeat(m) EXCEPT !.heartbeatTimers = @ + 1,
                             !.heartbeatInterval = TRUE]

\* A teardown that cancels the timers of the entries and rejects nothing.
RECURSIVE rejectAllBEForgets(_, _)
rejectAllBEForgets(m, entries) ==
    IF entries = <<>> THEN m
    ELSE rejectAllBEForgets([m EXCEPT !.execs[Head(entries).owner].timer = FALSE],
                            Tail(entries))

RECURSIVE rejectAllBE(_, _)
rejectAllBE(m, entries) ==
    IF entries = <<>> THEN m
    ELSE LET p == Head(entries)
         IN rejectAllBE(RejectExec([m EXCEPT !.execs[p.owner].timer = FALSE],
                                   p.owner, "ConnectionFailed"),
                        Tail(entries))

cleanupBE(m) ==
    LET m1 == [stopHeartbeat(m) EXCEPT !.socket = NoSocket]
        m2 == rejectAllBE(m1, m1.pendingCommands)
    IN [m2 EXCEPT !.pendingCommands = <<>>]

\* The authHandler closure of attempt k.
callAuthHandler(m, k, success) ==
    LET m1 == [m EXCEPT !.attempts[k].authTimer = FALSE]
    IN IF success THEN ResolveAuth(m1, k) ELSE RejectAuth(m1, k, "AuthFailed")

\* An authenticate that sends its login packet a second time.
authenticateBETwice(m, k) ==
    LET m1 == setState(m, "authenticating")
        m2 == [m1 EXCEPT !.attempts[k].pc = "auth",
                         !.attempts[k].linked = FALSE,
                         !.attempts[k].authTimer = TRUE,
                         !.authHandler = k]
    IN ReturnInner(sendPacketBE(sendPacketBE(m2, 0, 0, Len(Password),
                                             "connect"),
                                0, 0, Len(Password), "connect"),
                   "connect", k)

authenticateBE(m, k) ==
    LET m1 == setState(m, "authenticating")
        m2 == [m1 EXCEPT !.attempts[k].pc = "auth",
                         !.attempts[k].linked = FALSE,
                         !.attempts[k].authTimer = TRUE,
                         !.authHandler = k]
        thrown == sendPacketBEThrows(m2)
    IN ReturnInner(
           IF thrown # "none" THEN RejectAuth(m2, k, thrown)
           ELSE sendPacketBE(m2, 0, 0, Len(Password), "connect"),
           "connect", k)

waitForResponseBE(m, e, seq) ==
    ReturnInner(
        [m EXCEPT !.execs[e].pc = "wait", !.execs[e].timer = TRUE,
                  !.pendingCommands = MapSet(@, [id |-> seq, owner |-> e])],
        "execute", e)

executeBE(m, len) ==
    LET e == Len(m.execs) + 1
        seqNum == m.sequenceNumber
        m1 == getNextSequenceNumber(m)
        thrown == sendPacketBEThrows(m1)
        m2 == sendPacketBE(m1, 1, seqNum, len, "execute")
    IN IF thrown # "none" THEN executeCatch(m1, thrown)
       ELSE waitForResponseBE(
                [m2 EXCEPT !.execs = Append(@, ExecRec("wait", seqNum, 0))],
                e, seqNum)

\* A login response taken as success whatever its result byte.
handleLoginResponseAny(m, payload) ==
    IF Len(payload) < 2 THEN m
    ELSE IF m.authHandler # 0
         THEN [callAuthHandler(m, m.authHandler, TRUE) EXCEPT !.authHandler = 0]
         ELSE m

handleLoginResponse(m, payload) ==
    IF Len(payload) < 2 THEN m
    ELSE LET success == payload[2] = 1
         IN IF m.authHandler # 0
            THEN [callAuthHandler(m, m.authHandler, success)
                     EXCEPT !.authHandler = 0]
            ELSE m

handleCommandResponse(m, payload) ==
    IF Len(payload) < 2 THEN m
    ELSE LET seq == payload[2]
             response == toStringUtf8(SubSeq(payload, 3, Len(payload)))
             i == KeyIndex(m.pendingCommands, seq)
         IN IF i # 0
            THEN LET pending == m.pendingCommands[i]
                     m1 == [m EXCEPT !.execs[pending.owner].timer = FALSE,
                                     !.pendingCommands = MapDelete(@, seq)]
                 IN ResolveExec(m1, pending.owner, response)
            ELSE m

\* A server-message handler that emits the event and sends no ack.
handleServerMessageNoAck(m, payload) ==
    IF Len(payload) < 2 THEN m
    ELSE emit(m, "serverMessage",
              toStringUtf8(SubSeq(payload, 3, Len(payload))), "")

handleServerMessage(m, payload) ==
    IF Len(payload) < 2 THEN m
    ELSE LET seq == payload[2]
             message == toStringUtf8(SubSeq(payload, 3, Len(payload)))
             thrown == sendPacketBEThrows(m)
         IN IF thrown # "none" THEN [m EXCEPT !.uncaught = thrown]
            ELSE emit(sendPacketBE(m, 2, seq, 0, "ack"),
                      "serverMessage", message, "")

\* History of what the server delivered (no effect on the program): a valid
\* command response carrying the sequence number of an execute in flight is
\* its response; a valid login response is the verdict on the connect()
\* whose login handler is installed, if it is still awaiting one.
observeMessage(m, dg) ==
    IF dg.check # "ok" \/ Len(dg.payload) < 2 THEN m
    ELSE IF dg.payload[1] = 1 THEN
        [m EXCEPT !.execs = [e \in 1..Len(@) |->
            IF @[e].rx.timedOut /\ @[e].cid = dg.payload[2]
            THEN [@[e] EXCEPT !.rx.late = TRUE]
            ELSE IF @[e].pc = "wait" /\ @[e].cid = dg.payload[2]
            THEN [@[e] EXCEPT !.rx.frags = <<SubSeq(dg.payload, 3,
                                                   Len(dg.payload))>>,
                              !.rx.term = TRUE]
            ELSE @[e]]]
    ELSE IF dg.payload[1] = 0 /\ m.authHandler # 0 THEN
        LET k == m.authHandler
        IN IF m.attempts[k].pc # "auth" THEN m
           ELSE IF dg.payload[2] = 1 THEN [m EXCEPT !.attempts[k].rx.ok = TRUE]
           ELSE [m EXCEPT !.attempts[k].rx.fail = TRUE]
    ELSE m

\* handleMessage on a datagram whose header, separator and checksum checks
\* came out as dg.check; the payload is dispatched on its first byte.
dispatchMessage(m, dg) ==
    IF dg.check # "ok" THEN m
    ELSE IF dg.payload = <<>> THEN [m EXCEPT !.uncaught = "RangeError"]
    ELSE IF dg.payload[1] = 0 THEN handleLoginResponse(m, dg.payload)
    ELSE IF dg.payload[1] = 1 THEN handleCommandResponse(m, dg.payload)
    ELSE IF dg.payload[1] = 2 THEN handleServerMessage(m, dg.payload)
    ELSE m

handleMessage(m, dg) == dispatchMessage(observeMessage(m, dg), dg)

\* ---- the BattlEye wire format, byte by byte
\* Bitwise exclusive or of two bytes.
XorByte(a, b) ==
    LET bit(k) == (((a \div (2 ^ k)) + (b \div (2 ^ k))) % 2) * (2 ^ k)
    IN bit(0) + bit(1) + bit(2) + bit(3) + bit(4) + bit(5) + bit(6) + bit(7)

\* 32-bit words are kept as their four bytes, least significant first.
XorWord(c, d) ==
    <<XorByte(c[1], d[1]), XorByte(c[2], d[2]), XorByte(c[3], d[3]),
      XorByte(c[4], d[4])>>

\* crc >>> 1
ShiftRight(c) ==
    <<(c[1] \div 2) + (c[2] % 2) * 128, (c[2] \div 2) + (c[3] % 2) * 128,
      (c[3] \div 2) + (c[4] % 2) * 128, c[4] \div 2>>

\* 0xEDB88320
Polynomial == <<32, 131, 184, 237>>

\* One round of the inner loop of calculateCRC32.
crcBit(c) ==
    IF c[1] % 2 = 1 THEN XorWord(ShiftRight(c), Polynomial) ELSE ShiftRight(c)

\* One round of the outer loop: the byte is xored in, then eight inner rounds.
crcByte(c, b) ==
    crcBit(crcBit(crcBit(crcBit(crcBit(crcBit(crcBit(crcBit(
        <<XorByte(c[1], b), c[2], c[3], c[4]>>))))))))

RECURSIVE crcLoop(_, _)
crcLoop(data, i) ==
    IF i = 0 THEN <<255, 255, 255, 255>>
    ELSE crcByte(crcLoop(data, i - 1), data[i])

\* calculateCRC32: the checksum as writeUInt32LE writes it and readUInt32LE
\* reads it, four bytes.
calculateCRC32(data) ==
    XorWord(crcLoop(data, Len(data)), <<255, 255, 255, 255>>)

\* A sendPacket whose checksum leaves out the 0xFF byte.
buildPacketPayloadOnly(payload) ==
    <<66, 69>> \o calculateCRC32(payload) \o <<255>> \o payload

\* The datagram sendPacket builds: 'B', 'E', checksum over 0xFF and the
\* payload, 0xFF, payload.
buildPacket(payload) ==
    LET dataToChecksum == <<255>> \o payload
    IN <<66, 69>> \o calculateCRC32(dataToChecksum) \o <<255>> \o payload

\* Header, separator and length checks without the checksum comparison.
checkMessageNoChecksum(msg) ==
    IF Len(msg) < 7 THEN "short"
    ELSE IF toStringAscii(SubSeq(msg, 1, 2)) # <<66, 69>> THEN "header"
    ELSE IF msg[7] # 255 THEN "separator"
    ELSE "ok"

\* The checks of handleMessage, in order: the one that fails, or "ok".
checkMessage(msg) ==
    IF Len(msg) < 7 THEN "short"
    ELSE IF toStringAscii(SubSeq(msg, 1, 2)) # <<66, 69>> THEN "header"
    ELSE IF msg[7] # 255 THEN "separator"
    ELSE LET receivedCRC32 == SubSeq(msg, 3, 6)
             dataToVerify == SubSeq(msg, 7, Len(msg))
         IN IF receivedCRC32 # calculateCRC32(dataToVerify) THEN "crc"
            ELSE "ok"

\* What handleMessage makes of the bytes of a datagram.
parseMessage(msg) ==
    [check |-> checkMessage(msg), payload |-> SubSeq(msg, 8, Len(msg))]

\* handleMessage on a datagram w = [bytes, dg], dg = parseMessage(bytes).
handleMessageBytes(m, w) ==
    [handleMessage(m, w.dg)
       EXCEPT !.received = w.bytes,
              !.framed = IF w.dg.check = "ok" THEN <<w.dg.payload>> ELSE <<>>]

\* A heartbeat that registers an in-flight entry for its sequence number.
heartbeatRegisters(m) ==
    IF isAuthenticated(m)
    THEN LET seqNum == m.sequenceNumber
             m1 == getNextSequenceNumber(m)
         IN sendPacketBE([m1 EXCEPT !.pendingCommands =
                                       MapSet(@, [id |-> seqNum, owner |-> 0])],
                         1, seqNum, 0, "heartbeat")
    ELSE m

\* The heartbeat interval callback.
heartbeat(m) ==
    IF isAuthenticated(m)
    THEN LET seqNum == m.sequenceNumber
             m1 == getNextSequenceNumber(m)
         IN IF sendPacketBEThrows(m1) # "none" THEN m1
            ELSE sendPacketBE(m1, 1, seqNum, 0, "heartbeat")
    ELSE m


\* ======================================================================
\* The public operations, shared by both classes
\* ======================================================================
cleanup(m) == IF m.engine = "source" THEN cleanupSrc(m) ELSE cleanupBE(m)

\* The record of one connect() call.  rx is history, not program state:
\* whether the server's verdict on this call's authentication request has
\* been delivered (ok: accepted, fail: refused), how far the events emitted
\* since the call follow ConnectOrder (seen), and whether disconnect() has
\* been called since (abandoned); all kept until the call settles.
AttemptRec(pc) ==
    [pc |-> pc, linked |-> FALSE, err |-> "none", authId |-> 0,
     authTimer |-> FALSE,
     rx |-> [ok |-> FALSE, fail |-> FALSE, seen |-> 0, abandoned |-> FALSE]]

\* An API call is caller code, which keeps running after the call returns.
ApiDone(m, op, res) ==
    [m EXCEPT !.lastCall = [@ EXCEPT !.op = op, !.res = res],
              !.callerIn = TRUE]

\* createConnection (Source): new socket, connect timer, once-handlers.
createConnection(m, k) ==
    ReturnInner([m EXCEPT !.socket = [st |-> "connecting", owner |-> k]],
                "connect", k)

\* A createSocket that resolves without entering the Connected state.
createSocketSilent(m, k) ==
    ReturnInner(ResolveConn([m EXCEPT !.socket = [st |-> "open", owner |-> 0]],
                            k),
                "connect", k)

\* createSocket (BattlEye): new socket with its handlers; resolves at once.
createSocket(m, k) ==
    ReturnInner(
        ResolveConn(setState([m EXCEPT !.socket = [st |-> "open", owner |-> 0]],
                             "connected"), k),
        "connect", k)

\* A connect() that is also accepted in the Error state.
connectFromError(m) ==
    IF m.state \notin {"disconnected", "error"}
    THEN ApiDone(m, "connect", "ConnectionFailed")
    ELSE LET k == Len(m.attempts) + 1
             m1 == setState([m EXCEPT
                                !.attempts = Append(@, AttemptRec("conn"))],
                            "connecting")
         IN ApiDone(IF m.engine = "source" THEN createConnection(m1, k)
                    ELSE createSocket(m1, k),
                    "connect", "pending")

connect(m) ==
    IF m.state # "disconnected"
    THEN ApiDone(m, "connect", "ConnectionFailed")
    ELSE LET k == Len(m.attempts) + 1
             m1 == setState([m EXCEPT
                       !.attempts = Append(@, AttemptRec("conn")),
                       !.queue = [j \in 1..Len(@) |->
                                    IF @[j].t = "disconnected"
                                    THEN [@[j] EXCEPT !.i = 1] ELSE @[j]]],
                            "connecting")
         IN ApiDone(IF m.engine = "source" THEN createConnection(m1, k)
                    ELSE createSocket(m1, k),
                    "connect", "pending")

execute(m, len) ==
    IF ~isAuthenticated(m)
    THEN ApiDone(m, "execute", "NotAuthenticated")
    ELSE LET m1 == IF m.engine = "source" THEN executeSrc(m, len)
                   ELSE executeBE(m, len)
             rec == m1.execs[Len(m1.execs)]
         IN ApiDone(m1, "execute",
                    IF rec.pc = "wait" THEN "pending" ELSE "CommandFailed")

\* disconnect(), awaited: the caller resumes in the reaction queued here.
\* The job's i turns 1 if a connect() is accepted before it runs.
disconnect(m) ==
    LET m0 == [m EXCEPT !.attempts = [k \in 1..Len(@) |->
                  IF @[k].pc \in {"ok", "fail"} THEN @[k]
                  ELSE [@[k] EXCEPT !.rx.abandoned = TRUE]]]
        m1 == emit(setState(cleanup(m0), "disconnected"), "disconnected",
                   "", "")
    IN [ApiDone(Enqueue(m1, Job("disconnected", "", 0)), "disconnect",
                "resolved")
          EXCEPT !.callerIn = FALSE]

\* NewPromiseResolveThenableJob of the async method awaited by call i.
linkJob(m, who, i) ==
    LET m1 == IF who = "connect" THEN [m EXCEPT !.attempts[i].linked = TRUE]
              ELSE [m EXCEPT !.execs[i].linked = TRUE]
        pc == IF who = "connect" THEN m.attempts[i].pc ELSE m.execs[i].pc
    IN IF pc \in {"conn", "auth", "wait"} THEN m1
       ELSE Enqueue(m1, Job("outer", who, i))

\* The async method's promise settles: connect()/execute() will resume.
outerJob(m, who, i) == Enqueue(m, Job("cont", who, i))

\* The rest of connect() after one of its awaits has settled.
connectThen(m, k) ==
    LET pc == m.attempts[k].pc
    IN IF pc = "connOk" THEN
           IF m.engine = "source" THEN authenticateSrc(m, k)
           ELSE authenticateBE(m, k)
       ELSE IF pc = "authOk" THEN
           LET m1 == emit(setState(m, "authenticated"), "authenticated", "", "")
               m2 == IF m.engine = "battleye" THEN startHeartbeat(m1) ELSE m1
           IN NotifyCaller([m2 EXCEPT
                  !.attempts[k] = AttemptRec("ok"),
                  !.settled = [NoSettle EXCEPT !.op = "connect", !.i = k,
                                               !.res = "resolved",
                                               !.rx = m2.attempts[k].rx]])
       ELSE
           LET m1 == cleanup(setState(m, "error"))
           IN NotifyCaller([m1 EXCEPT
                  !.attempts[k] = AttemptRec("fail"),
                  !.settled = [NoSettle EXCEPT !.op = "connect", !.i = k,
                                               !.res = m.attempts[k].err,
                                               !.rx = m1.attempts[k].rx]])

\* An execute() that rejects with the error of waitForResponse() as it is.
executeThenBare(m, e) ==
    IF m.execs[e].pc = "resOk"
    THEN NotifyCaller([m EXCEPT
             !.execs[e] = ExecRec("resolved", 0, 0),
             !.settled = [NoSettle EXCEPT
                             !.op = "execute", !.i = e, !.res = "resolved",
                             !.val = m.execs[e].val,
                             !.rx = m.execs[e].rx]])
    ELSE NotifyCaller([m EXCEPT
             !.execs[e] = ExecRec("rejected", 0, 0),
             !.settled = [NoSettle EXCEPT
                             !.op = "execute", !.i = e,
                             !.res = m.execs[e].cause,
                             !.rx = m.execs[e].rx]])

\* The rest of execute() after waitForResponse() has settled.
executeThen(m, e) ==
    IF m.execs[e].pc = "resOk"
    THEN NotifyCaller([m EXCEPT
             !.execs[e] = ExecRec("resolved", 0, 0),
             !.settled = [NoSettle EXCEPT
                             !.op = "execute", !.i = e, !.res = "resolved",
                             !.val = IF m.engine = "source"
                                     THEN Join(m.execs[e].val)
                                     ELSE m.execs[e].val,
                             !.rx = m.execs[e].rx]])
    ELSE NotifyCaller([m EXCEPT
             !.execs[e] = IF m.execs[e].rx.timedOut
                          THEN [ExecRec("rejected", m.execs[e].cid,
                                        m.execs[e].tid)
                                   EXCEPT !.rx.timedOut = TRUE]
                          ELSE ExecRec("rejected", 0, 0),
             !.settled = [NoSettle EXCEPT
                             !.op = "execute", !.i = e, !.res = "CommandFailed",
                             !.cause = m.execs[e].cause,
                             !.rx = m.execs[e].rx]])

\* An execute timer that rejects and leaves the table as it is.
waitForResponseTimeoutKeepsEntry(m, e) ==
    RejectExec([m EXCEPT !.execs[e].timer = FALSE,
                         !.execs[e].rx.timedOut = TRUE], e, "Timeout")

\* The timeoutHandle callback of waitForResponse, for execute e: the entry
\* under its key is deleted and the promise rejected.
waitForResponseTimeout(m, e) ==
    LET key == m.execs[e].cid
        m1 == [m EXCEPT
                  !.execs[e].timer = FALSE,
                  !.execs[e].rx.timedOut = TRUE,
                  !.pendingResponses =
                      IF m.engine = "source" THEN MapDelete(@, key) ELSE @,
                  !.pendingCommands =
                      IF m.engine = "battleye" THEN MapDelete(@, key) ELSE @]
    IN RejectExec(m1, e, "Timeout")

\* ======================================================================
\* Actions
\* ======================================================================
Running == uncaught = "none"
CallerMayRun == Running /\ (callerIn \/ queue = <<>>)
JobMayRun(t) == Running /\ ~callerIn /\ queue # <<>> /\ Head(queue).t = t
TaskMayStart == Running /\ ~callerIn /\ queue = <<>>
Popped == [Cur EXCEPT !.queue = Tail(queue)]

Init ==
    /\ engine \in {"source", "battleye"}
    /\ state = "disconnected"
    /\ socket = NoSocket
    /\ requestId = 1
    /\ pendingResponses = <<>>
    /\ receiveBuffer = "empty"
    /\ sequenceNumber = 0
    /\ pendingCommands = <<>>
    /\ heartbeatInterval = FALSE
    /\ heartbeatTimers = 0
    /\ sendCallbacks = <<>>
    /\ authHandler = 0
    /\ attempts = <<>>
    /\ execs = <<>>
    /\ queue = <<>>
    /\ sent = <<>>
    /\ callerIn = FALSE
    /\ lastCall = NoCall
    /\ settled = NoSettle
    /\ emitted = <<>>
    /\ uncaught = "none"
    /\ stream = <<>>
    /\ received = <<>>
    /\ framed = <<>>

Connect ==
    /\ CallerMayRun
    /\ state = "disconnected" => Len(attempts) + Len(execs) < MaxCalls
    /\ Commit(connect(Cur))

Execute ==
    /\ CallerMayRun
    /\ state = "authenticated" => Len(attempts) + Len(execs) < MaxCalls
    /\ \E len \in (IF engine = "source" THEN CommandLens ELSE {7}) :
          Commit(execute(Cur, len))

Disconnect ==
    /\ CallerMayRun
    /\ Commit(disconnect(Cur))

LinkStep ==
    /\ JobMayRun("link")
    /\ Commit(linkJob(Popped, Head(queue).who, Head(queue).i))

OuterStep ==
    /\ JobMayRun("outer")
    /\ Commit(outerJob(Popped, Head(queue).who, Head(queue).i))

ConnectStep ==
    /\ JobMayRun("cont") /\ Head(queue).who = "connect"
    /\ Commit(connectThen(Popped, Head(queue).i))

ExecStep ==
    /\ JobMayRun("cont") /\ Head(queue).who = "execute"
    /\ Commit(executeThen(Popped, Head(queue).i))

\* The caller resumes on a settled connect()/execute() promise.
CallerStep ==
    /\ JobMayRun("caller")
    /\ Commit([Popped EXCEPT !.callerIn = TRUE])

\* The caller resumes after `await disconnect()`.
DisconnectStep ==
    /\ JobMayRun("disconnected")
    /\ Commit([Popped EXCEPT
                  !.callerIn = TRUE,
                  !.settled = [NoSettle EXCEPT !.op = "disconnect",
                                               !.i = Head(queue).i,
                                               !.res = "resolved"]])

\* The caller awaits something already settled: it resumes after the jobs
\* queued so far.
CallerYield ==
    /\ Running /\ callerIn
    /\ Commit(NotifyCaller([Cur EXCEPT !.callerIn = FALSE]))

\* The caller's synchronous code ends.
CallerEnd ==
    /\ Running /\ callerIn
    /\ Commit([Cur EXCEPT !.callerIn = FALSE])

\* ---- timers
\* createConnection's timeoutHandle (Source): armed while its promise is
\* pending; destroys whatever socket the client holds now.
ConnectTimerFire ==
    /\ TaskMayStart /\ engine = "source"
    /\ \E k \in 1..Len(attempts) :
          /\ attempts[k].pc = "conn"
          /\ LET st == socket.st
                 m1 == [Cur EXCEPT !.socket.st =
                           IF st = "connecting" THEN "dead"
                           ELSE IF st = "open" THEN "closing" ELSE st]
             IN Commit(RejectConn(m1, k, "Timeout"))

\* authenticate's timeoutHandle.
AuthTimerFire ==
    /\ TaskMayStart
    /\ \E k \in 1..Len(attempts) :
          /\ attempts[k].authTimer
          /\ LET m1 == [Cur EXCEPT
                           !.attempts[k].authTimer = FALSE,
                           !.pendingResponses =
                               IF engine = "source"
                               THEN MapDelete(@, attempts[k].authId) ELSE @]
             IN Commit(RejectAuth(m1, k, "Timeout"))

\* waitForResponse's timeoutHandle.
ExecTimerFire ==
    /\ TaskMayStart
    /\ \E e \in 1..Len(execs) :
          /\ execs[e].timer
          /\ Commit(waitForResponseTimeout(Cur, e))

HeartbeatTick ==
    /\ TaskMayStart /\ heartbeatTimers > 0
    /\ state = "authenticated" => sequenceNumber - Len(execs) < MaxHeartbeats
    /\ Commit(heartbeat(Cur))

\* ---- Source socket events
\* once('connect') of createConnection, with setupSocketHandlers.
SockConnect ==
    /\ TaskMayStart /\ engine = "source" /\ socket.st = "connecting"
    /\ LET m1 == setState([Cur EXCEPT !.socket = [st |-> "open", owner |-> 0]],
                          "connected")
       IN Commit(ResolveConn(m1, socket.owner))

\* once('error') of createConnection: the connection attempt failed.
SockConnectError ==
    /\ TaskMayStart /\ engine = "source" /\ socket.st = "connecting"
    /\ Commit(RejectConn([Cur EXCEPT !.socket.st = "dead"],
                         socket.owner, "ConnectionFailed"))

\* The packets a read may carry.  handlePacket looks at a packet's type and
\* body only when its id is a key of the table, so one packet stands for all
\* packets with any other id: the auth-failure id, an id that matches
\* nothing (0), and each terminator id in the table.
\* Ids (sequence numbers) of the executes whose timer has fired: what a late
\* reply of the server carries.
LateIds ==
    UNION {{execs[e].cid, execs[e].tid} : e \in {x \in 1..Len(execs) :
                                                  execs[x].rx.timedOut}}

LateSeqs == {execs[e].cid : e \in {x \in 1..Len(execs) : execs[x].rx.timedOut}}

KeyIds == {pendingResponses[i].id : i \in 1..Len(pendingResponses)}

OtherIds ==
    ({AUTH_FAILURE_ID, 0} \cup LateIds
      \cup {pendingResponses[i].terminatorId : i \in 1..Len(pendingResponses)})
        \ KeyIds

InPackets ==
    {[id |-> i, type |-> SERVERDATA_RESPONSE_VALUE, body |-> b] :
        i \in KeyIds, b \in Bodies}
      \cup {[id |-> i, type |-> SERVERDATA_EXECCOMMAND, body |-> <<>>] :
              i \in KeyIds}
      \cup {[id |-> i, type |-> SERVERDATA_RESPONSE_VALUE, body |-> <<>>] :
              i \in OtherIds}

RECURSIVE Delivered(_)
Delivered(es) ==
    IF es = <<>> THEN 0 ELSE Len(Head(es).rx.frags) + Delivered(Tail(es))

\* What handleData leaves of the table and the calls after a read that
\* frames n packets: every packet of InPackets may come at every position
\* of the read, as long as the server delivers at most MaxFrags response
\* fragments in all.
RECURSIVE ReadOutcomes(_, _, _)
ReadOutcomes(ms, packets, n) ==
    IF n = 0 THEN ms
    ELSE ReadOutcomes({m1 \in {handleData(m, <<p>>) : m \in ms, p \in packets} :
                          Delivered(m1.execs) <= MaxFrags},
                      packets, n - 1)

\* on('data'): the read is appended to the receive buffer and the complete
\* packets are framed off its front (none, when the read does not complete
\* one); what is left in the buffer is nothing (also after a size field out
\* of range, which empties it) or the beginning of a packet.
SockData ==
    /\ TaskMayStart /\ engine = "source" /\ socket.st = "open"
    /\ \E n \in 0..MaxRead, rest \in {"empty", "partial"} :
          \E m1 \in ReadOutcomes({Cur}, InPackets, n) :
              Commit([m1 EXCEPT !.receiveBuffer = rest])

\* on('error'): the event is re-emitted; the transport closes the socket.
SockError ==
    /\ TaskMayStart /\ socket.st = "open"
    /\ Commit(emit([Cur EXCEPT !.socket.st =
                                IF engine = "source" THEN "closing" ELSE @],
                   "error", "SocketError", ""))

\* on('timeout') (Source): the idle socket is destroyed.
SockTimeout ==
    /\ TaskMayStart /\ engine = "source" /\ socket.st = "open"
    /\ Commit([Cur EXCEPT !.socket.st = "closing"])

\* The on('close') handler: the event is re-emitted, then the session is
\* torn down unless the state is Disconnected already.
onClose(m) ==
    LET m1 == emit(m, "close", "", "")
    IN IF m1.state # "disconnected"
       THEN cleanup(setState(m1, "disconnected"))
       ELSE [m1 EXCEPT !.socket.st = "closed"]

SockClose ==
    /\ TaskMayStart /\ socket.st \in {"open", "closing"}
    /\ Commit(onClose(Cur))

\* ---- BattlEye socket events
KnownSeqs ==
    {0, 42} \cup LateSeqs
      \cup {pendingCommands[i].id : i \in 1..Len(pendingCommands)}

Payloads ==
    {<<>>, <<0>>, <<0, 0>>, <<0, 1>>, <<1>>, <<2>>, <<3, 0>>}
      \cup {<<1, s>> \o t : s \in KnownSeqs, t \in Texts}
      \cup {<<2, 42>> \o t : t \in Texts}

Datagrams ==
    {[check |-> "ok", payload |-> q] : q \in Payloads}
      \cup {[check |-> c, payload |-> <<0, 1>>] :
              c \in {"short", "header", "separator", "crc"}}

Message ==
    /\ TaskMayStart /\ engine = "battleye" /\ socket.st = "open"
    /\ \E dg \in Datagrams : Commit(handleMessage(Cur, dg))

\* The transport calls the callback of the oldest send, with or without an
\* error.
SendCallback ==
    /\ TaskMayStart /\ sendCallbacks # <<>>
    /\ \E error \in BOOLEAN :
          Commit(sendCallback([Cur EXCEPT !.sendCallbacks = Tail(@)],
                              Head(sendCallbacks), error))

Next ==
    \/ Connect
    \/ Execute
    \/ Disconnect
    \/ LinkStep
    \/ OuterStep
    \/ ConnectStep
    \/ ExecStep
    \/ CallerStep
    \/ DisconnectStep
    \/ CallerYield
    \/ CallerEnd
    \/ ConnectTimerFire
    \/ AuthTimerFire
    \/ ExecTimerFire
    \/ HeartbeatTick
    \/ SockConnect
    \/ SockConnectError
    \/ SockData
    \/ SockError
    \/ SockTimeout
    \/ SockClose
    \/ Message
    \/ SendCallback

Spec == Init /\ [][Next]_vars

\* Fair scheduling: a queued promise job runs; caller code that is running
\* comes to an end; a timer that is armed fires once the event loop gets to
\* it.  Nothing is assumed about what the server sends.
Fairness ==
    /\ WF_vars(LinkStep) /\ WF_vars(OuterStep)
    /\ WF_vars(ConnectStep) /\ WF_vars(ExecStep)
    /\ WF_vars(CallerStep) /\ WF_vars(DisconnectStep)
    /\ SF_vars(CallerEnd)
    /\ SF_vars(ConnectTimerFire) /\ SF_vars(AuthTimerFire)
    /\ SF_vars(ExecTimerFire)

FairSpec == Spec /\ Fairness

\* ---- the sequence counter going round
\* A BattlEye client whose server accepts the login and then answers no
\* command, and whose request timeout is long: executes stay in flight while
\* the heartbeat keeps ticking, any number of times, so that the counter
\* wraps from 255 to 0.
WrapInit == Init /\ engine = "battleye"

LoginAccepted ==
    /\ TaskMayStart /\ engine = "battleye" /\ socket.st = "open"
    /\ state = "authenticating"
    /\ Commit(handleMessage(Cur, [check |-> "ok", payload |-> <<0, 1>>]))

HeartbeatWhileInFlight ==
    /\ TaskMayStart /\ heartbeatTimers > 0 /\ pendingCommands # <<>>
    /\ Commit(heartbeat(Cur))

WrapNext ==
    \/ Connect
    \/ Execute
    \/ LinkStep
    \/ OuterStep
    \/ ConnectStep
    \/ CallerStep
    \/ CallerEnd
    \/ LoginAccepted
    \/ HeartbeatWhileInFlight

WrapSpec == WrapInit /\ [][WrapNext]_vars

\* ---- the request id going round
\* A Source client that has allocated any number of request ids before: the
\* counter starts at 1 or shortly before it wraps.
IdStarts == {1, MaxRequestId - 2, MaxRequestId - 1, MaxRequestId}

IdInit ==
    /\ engine = "source"
    /\ state = "disconnected"
    /\ socket = NoSocket
    /\ requestId \in IdStarts
    /\ pendingResponses = <<>>
    /\ receiveBuffer = "empty"
    /\ sequenceNumber = 0
    /\ pendingCommands = <<>>
    /\ heartbeatInterval = FALSE
    /\ heartbeatTimers = 0
    /\ sendCallbacks = <<>>
    /\ authHandler = 0
    /\ attempts = <<>>
    /\ execs = <<>>
    /\ queue = <<>>
    /\ sent = <<>>
    /\ callerIn = FALSE
    /\ lastCall = NoCall
    /\ settled = NoSettle
    /\ emitted = <<>>
    /\ uncaught = "none"
    /\ stream = <<>>
    /\ received = <<>>
    /\ framed = <<>>

IdNext ==
    \/ Connect
    \/ Execute
    \/ Disconnect
    \/ LinkStep
    \/ OuterStep
    \/ ConnectStep
    \/ ExecStep
    \/ CallerStep
    \/ DisconnectStep
    \/ CallerYield
    \/ CallerEnd
    \/ SockConnect
    \/ SockData
    \/ SockClose

IdSpec == IdInit /\ [][IdNext]_vars

\* ---- BattlEye datagrams, byte by byte
\* A BattlEye client and a server (or any peer on the port) that sends
\* datagrams of its choosing: well-formed ones for every kind of payload,
\* the empty payload included, a login and a command response spoilt in one
\* place each (cut short, a wrong header, a header with the high bits set,
\* a wrong separator, a wrong checksum), and the login response of the
\* connect test, whose checksum is taken over the payload alone.
WirePayloads ==
    {<<>>, <<0>>, <<1>>, <<2>>, <<0, 0>>, <<0, 1>>, <<1, 0>>, <<1, 0, 65>>,
     <<1, 1, 255>>, <<2, 42>>, <<3, 0>>}

Spoilt(d) ==
    {SubSeq(d, 1, 6),
     <<66, 70>> \o SubSeq(d, 3, Len(d)),
     <<194, 197>> \o SubSeq(d, 3, Len(d)),
     SubSeq(d, 1, 6) \o <<254>> \o SubSeq(d, 8, Len(d)),
     SubSeq(d, 1, 2) \o <<(d[3] + 1) % 256>> \o SubSeq(d, 4, Len(d))}

LoginResponseOfTest == buildPacketPayloadOnly(<<0, 1>>)

WireBytes ==
    {buildPacket(q) : q \in WirePayloads}
      \cup Spoilt(buildPacket(<<0, 1>>))
      \cup Spoilt(buildPacket(<<1, 0, 65>>))
      \cup {LoginResponseOfTest}

Wire == {[bytes |-> d, dg |-> parseMessage(d)] : d \in WireBytes}

WireInit == Init /\ engine = "battleye"

\* on('message') with a datagram.
MessageBytes ==
    /\ TaskMayStart /\ engine = "battleye" /\ socket.st = "open"
    /\ \E w \in Wire : Commit(handleMessageBytes(Cur, w))

WireNext ==
    \/ Connect
    \/ Execute
    \/ LinkStep
    \/ OuterStep
    \/ ConnectStep
    \/ ExecStep
    \/ CallerStep
    \/ CallerEnd
    \/ HeartbeatTick
    \/ ExecTimerFire
    \/ MessageBytes

WireSpec == WireInit /\ [][WireNext]_vars

\* ---- the Source inbound stream, byte by byte
\* A Source client that is Authenticated and idle, and a server that writes
\* a stream of its choosing: packets with an empty and with a one-byte body,
\* and size fields out of range (9, 4111, negative), up to MaxSegments of
\* them in any order, or one packet of the maximum size.  The stream reaches
\* the client in reads of up to MaxChunk bytes, or all that is left at once.
MaxSegments == 3
MaxChunk == 15

MaxBody == [i \in 1..(MAX_PACKET_SIZE - MIN_PACKET_SIZE) |-> 65]

Segments ==
    {encodePacket(1, SERVERDATA_RESPONSE_VALUE, <<>>),
     encodePacket(AUTH_FAILURE_ID, SERVERDATA_EXECCOMMAND, <<200>>),
     writeInt32LE(MIN_PACKET_SIZE - 1),
     writeInt32LE(MAX_PACKET_SIZE + 1),
     writeInt32LE(-2)}

Streams ==
    {encodePacket(7, SERVERDATA_RESPONSE_VALUE, MaxBody)}
      \cup UNION {{Join(f) : f \in [1..k -> Segments]} : k \in 1..MaxSegments}

FrameInit ==
    /\ engine = "source"
    /\ state = "authenticated"
    /\ socket = [st |-> "open", owner |-> 0]
    /\ requestId = 2
    /\ pendingResponses = <<>>
    /\ receiveBuffer = <<>>
    /\ sequenceNumber = 0
    /\ pendingCommands = <<>>
    /\ heartbeatInterval = FALSE
    /\ heartbeatTimers = 0
    /\ sendCallbacks = <<>>
    /\ authHandler = 0
    /\ attempts = <<AttemptRec("ok")>>
    /\ execs = <<>>
    /\ queue = <<>>
    /\ sent = <<>>
    /\ callerIn = FALSE
    /\ lastCall = NoCall
    /\ settled = NoSettle
    /\ emitted = <<>>
    /\ uncaught = "none"
    /\ stream \in Streams
    /\ received = <<>>
    /\ framed = <<>>

\* on('data') with the next bytes of the stream.
Read ==
    /\ TaskMayStart /\ engine = "source" /\ socket.st = "open"
    /\ stream # <<>>
    /\ \E n \in 1..Len(stream) :
          /\ n <= MaxChunk \/ n = Len(stream)
          /\ Commit(handleDataBytes(
                        [Cur EXCEPT !.stream = SubSeq(stream, n + 1,
                                                      Len(stream)),
                                    !.received = received,
                                    !.framed = framed],
                        SubSeq(stream, 1, n)))

FrameNext == Read

FrameSpec == FrameInit /\ [][FrameNext]_vars

\* ======================================================================
\* Properties
\* ======================================================================
ClientState ==
    <<state, socket, requestId, pendingResponses, receiveBuffer, sequenceNumber,
      pendingCommands, heartbeatInterval, heartbeatTimers, sendCallbacks,
      authHandler, attempts, execs, queue>>

\* C1: on either client, an execute() called in any state other than
\* Authenticated is rejected with NotAuthenticated, unwrapped, and the step
\* changes nothing else: no packet sent, no event, no request id or sequence
\* number consumed, no table entry, timer or job created.
C1_ExecuteGuard ==
    [][(lastCall'.op = "execute" /\ state # "authenticated")
          => /\ lastCall'.res = "NotAuthenticated"
             /\ lastCall'.cause = "none"
             /\ sent' = <<>> /\ emitted' = <<>>
             /\ UNCHANGED ClientState]_vars

C1_Witness ==
    /\ lastCall.op = "execute" /\ lastCall.res = "NotAuthenticated"
    /\ state = "authenticating" /\ socket.st = "open"

\* C2: on either client, a connect() called in any state other than
\* Disconnected is rejected with ConnectionFailed, and the step leaves the
\* state, the socket, the timers and the correlation table as they were.
C2_ConnectGuard ==
    [][(lastCall'.op = "connect" /\ state # "disconnected")
          => /\ lastCall'.res = "ConnectionFailed"
             /\ sent' = <<>> /\ emitted' = <<>>
             /\ UNCHANGED ClientState]_vars

C2_Witness ==
    /\ lastCall.op = "connect" /\ lastCall.res = "ConnectionFailed"
    /\ state = "error"

\* C3: when the promise of an awaited disconnect() resolves for the caller
\* (no connect() having been accepted in between), the state is
\* Disconnected and the correlation table is empty.
C3_DisconnectResolved ==
    (settled.op = "disconnect" /\ settled.i = 0)
        => /\ settled.res = "resolved"
           /\ state = "disconnected"
           /\ pendingResponses = <<>> /\ pendingCommands = <<>>

\* The bodies of a list of packets, one after the other.
RECURSIVE InArrivalOrder(_)
InArrivalOrder(bodies) ==
    IF bodies = <<>> THEN <<>>
    ELSE InArrivalOrder(SubSeq(bodies, 1, Len(bodies) - 1))
           \o bodies[Len(bodies)]

\* C4: a Source execute has its response settled exactly when its terminator
\* has arrived, and it resolves with the concatenation, in arrival order, of
\* the bodies of the type-0 packets with its command id that arrived before.
C4_FragmentAssembly ==
    engine = "source" =>
        /\ \A e \in 1..Len(execs) :
              /\ execs[e].pc = "wait" => ~execs[e].rx.term
              /\ execs[e].pc = "resOk"
                    => execs[e].rx.term /\ execs[e].val = execs[e].rx.frags
        /\ (settled.op = "execute" /\ settled.res = "resolved")
              => /\ settled.rx.term
                 /\ settled.val = InArrivalOrder(settled.rx.frags)

C4_Witness ==
    /\ engine = "source"
    /\ settled.op = "execute" /\ settled.res = "resolved"
    /\ Len(settled.rx.frags) = 2 /\ settled.rx.frags[1] # settled.rx.frags[2]

\* C5: with several Source executes in flight, every table entry holds
\* exactly the fragments that arrived with its own command id, belongs to one
\* execute that is still waiting, and an execute is completed only by its own
\* terminator, with its own fragments.
C5_SourceCorrelation ==
    engine = "source" =>
        /\ \A i \in 1..Len(pendingResponses) :
              pendingResponses[i].kind = "exec"
                 => LET x == execs[pendingResponses[i].owner]
                    IN /\ x.pc = "wait"
                       /\ x.cid = pendingResponses[i].id
                       /\ x.tid = pendingResponses[i].terminatorId
                       /\ x.rx.frags = pendingResponses[i].responses
                       /\ ~x.rx.term
        /\ \A i, j \in 1..Len(pendingResponses) :
              pendingResponses[i].id = pendingResponses[j].id => i = j
        /\ \A e \in 1..Len(execs) :
              execs[e].pc = "resOk"
                 => execs[e].rx.term /\ execs[e].val = execs[e].rx.frags

C5_Witness ==
    /\ engine = "source"
    /\ \E e1, e2 \in 1..Len(execs) :
          /\ execs[e1].pc = "resOk" /\ execs[e1].val = <<<<102>>>>
          /\ execs[e2].pc = "wait" /\ execs[e2].rx.frags = <<<<98>>>>
          /\ e2 < e1

C7_AuthFailureRejects ==
    engine = "source" =>
        /\ \A k \in 1..Len(attempts) :
              attempts[k].rx.fail
                 => attempts[k].pc = "authErr" /\ attempts[k].err = "AuthFailed"
        /\ (settled.op = "connect" /\ settled.rx.fail)
              => settled.res = "AuthFailed" /\ state # "authenticated"

\* C8: a Source connect() has its authentication resolved, and reaches
\* Authenticated, only after a type-2 packet with the auth request id has
\* been received.
C8_AuthSuccessNeedsType2 ==
    engine = "source" =>
        /\ \A k \in 1..Len(attempts) :
              attempts[k].pc = "authOk" => attempts[k].rx.ok
        /\ (settled.op = "connect" /\ settled.res = "resolved")
              => settled.rx.ok

\* C9: a BattlEye connect() resolves, with the state Authenticated and the
\* heartbeat started, only if a valid login response {0x00, 0x01} arrived
\* while it was awaiting one; a valid login response with another result
\* byte makes it reject with AuthFailed; when it rejects the heartbeat is
\* not running, and the heartbeat runs only in the Authenticated state.
C9_BattlEyeAuth ==
    engine = "battleye" =>
        /\ \A k \in 1..Len(attempts) :
              /\ attempts[k].pc = "authOk"
                    => attempts[k].rx.ok /\ ~attempts[k].rx.fail
              /\ attempts[k].rx.fail
                    => attempts[k].pc = "authErr"
                         /\ attempts[k].err = "AuthFailed"
        /\ (settled.op = "connect" /\ settled.res = "resolved")
              => settled.rx.ok /\ state = "authenticated" /\ heartbeatInterval
        /\ (settled.op = "connect" /\ settled.rx.fail)
              => settled.res = "AuthFailed"
        /\ (settled.op = "connect" /\ settled.res # "resolved")
              => ~heartbeatInterval
        /\ heartbeatInterval => state = "authenticated"

C9_Witness ==
    /\ engine = "battleye"
    /\ settled.op = "connect" /\ settled.res = "AuthFailed" /\ settled.rx.fail
    /\ state = "error" /\ ~heartbeatInterval

\* C10: when a connect() that had left Disconnected rejects, the client is
\* left in the Disconnected state.
C10_FailedConnectDisconnected ==
    (settled.op = "connect" /\ settled.res # "resolved")
        => state = "disconnected"

\* The replies a server may still send for an execute whose ids are ids.
LatePackets(ids) ==
    {[id |-> i, type |-> t, body |-> b] :
        i \in ids, t \in {SERVERDATA_RESPONSE_VALUE, SERVERDATA_EXECCOMMAND},
        b \in Bodies \cup {<<>>}}

LateDatagrams(seqs) ==
    {[check |-> "ok", payload |-> <<1, q>> \o t] : q \in seqs, t \in Texts}

\* C11: once the timer of an execute has fired, on either client, the
\* execute is failed with Timeout as the cause (wrapped in CommandFailed when
\* it rejects for the caller), its timer is off and the correlation table
\* holds no entry of it; and every packet the server can still send for it
\* (a fragment or terminator with its ids, a response with its sequence
\* number) is dropped: handling it leaves the whole client as it is.
C11_ExecuteTimeout ==
    /\ \A e \in 1..Len(execs) :
          execs[e].rx.timedOut
             => /\ execs[e].pc \in {"resErr", "rejected"}
                /\ execs[e].pc = "resErr" => execs[e].cause = "Timeout"
                /\ ~execs[e].timer
                /\ \A i \in 1..Len(pendingResponses) :
                      pendingResponses[i].kind = "exec"
                         => pendingResponses[i].owner # e
                /\ \A i \in 1..Len(pendingCommands) :
                      pendingCommands[i].owner # e
    /\ (settled.op = "execute" /\ settled.rx.timedOut)
          => settled.res = "CommandFailed" /\ settled.cause = "Timeout"
    /\ engine = "source"
          => \A p \in LatePackets(LateIds) : handlePacket(Cur, p) = Cur
    /\ engine = "battleye"
          => \A dg \in LateDatagrams(LateSeqs) : dispatchMessage(Cur, dg) = Cur

\* A late reply has been delivered while another execute is still waiting.
C11_Witness ==
    \E e1, e2 \in 1..Len(execs) :
       /\ execs[e1].rx.timedOut /\ execs[e1].rx.late
       /\ execs[e2].pc = "wait" /\ execs[e2].timer

\* C12: when an execute has rejected because its timer fired, the client is
\* no longer in the Authenticated state.
C12_TimeoutTearsDown ==
    (settled.op = "execute" /\ settled.rx.timedOut) => state # "authenticated"

\* C13: on either client, an execute() that is rejected in a state other
\* than Authenticated is rejected with NotAuthenticated and no wrapped error;
\* every other rejection of execute(), at the call or later, is CommandFailed
\* with the underlying error kept as its cause: InvalidPacket or SocketError
\* from a send, Timeout, ConnectionFailed or AuthFailed from the wait.
C13_CommandFailedWraps ==
    /\ lastCall.op = "execute"
          => \/ lastCall.res = "pending" /\ lastCall.cause = "none"
             \/ lastCall.res = "NotAuthenticated" /\ lastCall.cause = "none"
             \/ /\ lastCall.res = "CommandFailed"
                /\ lastCall.cause \in {"InvalidPacket", "SocketError"}
    /\ (settled.op = "execute" /\ settled.res # "resolved")
          => /\ settled.res = "CommandFailed"
             /\ settled.cause \in {"Timeout", "ConnectionFailed", "AuthFailed"}

C13_Witness ==
    /\ settled.op = "execute" /\ settled.res = "CommandFailed"
    /\ settled.cause = "ConnectionFailed"

ConnectSettled(k) == k <= Len(attempts) /\ attempts[k].pc \in {"ok", "fail"}
ExecuteSettled(e) ==
    e <= Len(execs) /\ execs[e].pc \in {"resolved", "rejected"}

SessionState ==
    <<state, socket, pendingCommands, heartbeatInterval, heartbeatTimers,
      authHandler, attempts, execs, queue, uncaught>>

SessionStateOf(m) ==
    <<m.state, m.socket, m.pendingCommands, m.heartbeatInterval,
      m.heartbeatTimers, m.authHandler, m.attempts, m.execs, m.queue,
      m.uncaught>>

\* C15: in every state in which the BattlEye client has its socket open,
\* whatever the connection state and whatever was acked before, handling a
\* valid datagram {0x02, seq, text} sends exactly one packet, the ack
\* {0x02, seq}, then emits exactly one event, serverMessage with the decoded
\* text, and changes neither the state, the correlation table, the
\* sequence counter nor anything else of the session.  A step that emits
\* serverMessage has sent one ack before it.
C15_ServerMessageAck ==
    /\ (engine = "battleye" /\ socket.st = "open")
          => \A q \in KnownSeqs \cup {SeqModulus - 1} : \A t \in Texts :
                LET m == handleMessage(Cur, [check |-> "ok",
                                             payload |-> <<2, q>> \o t])
                IN /\ Len(m.sent) = 1
                   /\ m.sent[1].type = 2 /\ m.sent[1].id = q
                   /\ m.sent[1].len = 0
                   /\ Len(m.emitted) = 1
                   /\ m.emitted[1].ev = "serverMessage"
                   /\ m.emitted[1].a = toStringUtf8(t)
                   /\ m.emitted[1].nsent = 1
                   /\ SessionStateOf(m) = SessionState
                   /\ m.sequenceNumber = sequenceNumber
    /\ \A i \in 1..Len(emitted) :
          emitted[i].ev = "serverMessage"
             => /\ Len(emitted) = 1 /\ Len(sent) = 1
                /\ sent[1].by = "ack" /\ sent[1].id = 42
                /\ emitted[i].nsent = 1

\* A server message handled while the login is still awaited.
C15_Witness ==
    /\ engine = "battleye" /\ state = "authenticating"
    /\ Len(sent) = 1 /\ sent[1].by = "ack"
    /\ Len(emitted) = 1 /\ emitted[1].ev = "serverMessage"
    /\ emitted[1].a = <<65533>>

\* C16: in every state in which the heartbeat timer is armed and the client
\* is Authenticated, the heartbeat callback sends exactly one packet
\* {0x01, seq, ""} with seq the current value of the counter, advances the
\* counter by one modulo 256, and leaves the correlation table, every
\* execute with its timer, and the rest of the session as they are.  A step
\* that sends a heartbeat packet leaves the table as it was.
C16_HeartbeatFireAndForget ==
    /\ []((heartbeatTimers > 0 /\ state = "authenticated")
            => LET m == heartbeat(Cur)
               IN /\ Len(m.sent) = 1
                  /\ m.sent[1].type = 1 /\ m.sent[1].id = sequenceNumber
                  /\ m.sent[1].len = 0
                  /\ m.sequenceNumber = (sequenceNumber + 1) % SeqModulus
                  /\ m.emitted = <<>>
                  /\ SessionStateOf(m) = SessionState)
    /\ [][(sent' # <<>> /\ sent'[1].by = "heartbeat")
            => /\ pendingCommands' = pendingCommands
               /\ execs' = execs /\ attempts' = attempts
               /\ state' = state /\ queue' = queue]_vars

\* A heartbeat sent while an execute is in flight.
C16_Witness ==
    /\ Len(sent) = 1 /\ sent[1].by = "heartbeat"
    /\ Len(pendingCommands) = 1 /\ execs[pendingCommands[1].owner].timer

\* C17: no error event is ever emitted for a heartbeat packet that could not
\* be sent.
C17_HeartbeatSendSilent ==
    \A i \in 1..Len(emitted) :
       emitted[i].ev = "error" => emitted[i].b # "heartbeat"

\* C18: a heartbeat packet is sent only in the Authenticated state; in every
\* state between two callbacks the client has at most one heartbeat timer
\* armed, it is the one the client holds in heartbeatInterval, and if it is
\* armed the state is Authenticated; when a connect() rejects or an awaited
\* disconnect() resolves no heartbeat timer is armed.
C18_HeartbeatOnlyAuthenticated ==
    /\ \A i \in 1..Len(sent) :
          sent[i].by = "heartbeat" => state = "authenticated"
    /\ heartbeatTimers = (IF heartbeatInterval THEN 1 ELSE 0)
    /\ heartbeatTimers > 0 => state = "authenticated"
    /\ (settled.op = "connect" /\ settled.res # "resolved")
          => heartbeatTimers = 0
    /\ (lastCall.op = "disconnect") => heartbeatTimers = 0

\* The heartbeat has been stopped by a disconnect() after it had sent.
C18_Witness ==
    /\ engine = "battleye" /\ lastCall.op = "disconnect"
    /\ sequenceNumber > 0 /\ execs = <<>>
    /\ heartbeatTimers = 0

\* C19: on the BattlEye client every execute that is waiting for its
\* response has its own entry in the table, under the sequence number it
\* was issued: no later execute has been issued the same number and taken
\* the entry over.
C19_OneLiveEntryPerSeq ==
    engine = "battleye" =>
        \A e \in 1..Len(execs) :
           execs[e].pc = "wait"
              => \E i \in 1..Len(pendingCommands) :
                    /\ pendingCommands[i].owner = e
                    /\ pendingCommands[i].id = execs[e].cid

\* C20: whenever a stateChange event to Disconnected is emitted, the
\* correlation table is already empty: its listeners never see the state
\* Disconnected with an entry still in the table.
C20_TableEmptyBeforeDisconnected ==
    \A i \in 1..Len(emitted) :
       (emitted[i].ev = "stateChange" /\ emitted[i].a = "disconnected")
          => emitted[i].pend = 0

\* C21: on both engines, a step in which the transport reports an
\* asynchronous socket error emits an `error` event carrying SocketError,
\* and the entries in flight are failed as a consequence of the error: the
\* transport is closing the socket, and the close handler that follows
\* leaves no entry in flight.
C21_SocketErrorFailsEntries ==
    \A i \in 1..Len(emitted) :
        (emitted[i].ev = "error" /\ emitted[i].b = "")
            => /\ emitted[i].a = "SocketError"
               /\ InFlight(Cur) > 0
                     => /\ socket.st = "closing"
                        /\ InFlight(onClose(Cur)) = 0

\* The stateChange events among the events of one step, in order.
StateChanges(evs) == SelectSeq(evs, LAMBDA x : x.ev = "stateChange")

\* C22: setting the state emits one stateChange(new, old) when new differs
\* from old and none when it is equal: the client starts Disconnected, and
\* through every step the stateChange events form a chain from the state
\* before the step to the state after it (the first event's old state is the
\* state before, each event's old state is the previous event's new state,
\* no event has new = old, and the state after is the last event's new
\* state, or the state before when there is no event).
C22_StateChangeChain ==
    /\ state = "disconnected"
    /\ [][LET sc == StateChanges(emitted')
          IN /\ \A i \in 1..Len(sc) :
                   /\ sc[i].a # sc[i].b
                   /\ sc[i].b = IF i = 1 THEN state ELSE sc[i - 1].a
             /\ state' = IF sc = <<>> THEN state ELSE sc[Len(sc)].a]_vars

\* A disconnect() called while Disconnected sets the state it already has:
\* `disconnected` is emitted and no stateChange.
C22_Witness ==
    /\ lastCall.op = "disconnect" /\ emitted # <<>>
    /\ StateChanges(emitted) = <<>>
    /\ Len(attempts) > 0

\* C23: when a connect() resolves, the stateChange events emitted since the
\* call were Connecting, Connected, Authenticating, Authenticated, in that
\* order and with no other state change in between, and `authenticated` was
\* emitted once, after the change to Authenticated; the resolving step ends
\* in the Authenticated state.
C23_ConnectOrder ==
    (settled.op = "connect" /\ settled.res = "resolved")
        => /\ settled.rx.seen = 5
           /\ state = "authenticated"
           /\ emitted[Len(emitted)].ev = "authenticated"

\* A connect() resolves after an earlier connect() and a disconnect().
C23_Witness ==
    /\ settled.op = "connect" /\ settled.res = "resolved" /\ settled.i = 2
    /\ settled.rx.seen = 5

\* The authentication packets (Source type 3, BattlEye login) and the
\* command packets of execute() among the packets sent by one step.
AuthPackets(pkts) == SelectSeq(pkts, LAMBDA x : x.by = "connect")

CommandPackets(pkts) ==
    SelectSeq(pkts, LAMBDA x : x.by = "execute"
                               /\ x.type = IF engine = "source"
                                           THEN SERVERDATA_EXECCOMMAND ELSE 1)

C25_LeavesDisconnectedByConnect ==
    \A i \in 1..Len(emitted) :
        (emitted[i].ev = "stateChange" /\ emitted[i].b = "disconnected")
            => emitted[i].a = "connecting" /\ lastCall.op = "connect"

\* What a timer of an abandoned connect() must leave alone.
SessionHeld == <<state, socket, pendingResponses, pendingCommands>>

\* C26: disconnect() stops every timer of the session: when the connect or
\* authentication timer of a connect() call fires after disconnect() has
\* been called, neither the timer callback nor the continuation of connect()
\* that it wakes changes the state, the socket or the correlation table.
C26_DisconnectStopsTimers ==
    [][/\ \A k \in 1..Len(attempts) :
             (/\ attempts[k].rx.abandoned
              /\ attempts[k].err # "Timeout" /\ attempts'[k].err = "Timeout")
                 => UNCHANGED SessionHeld
       /\ (/\ settled'.op = "connect" /\ settled'.res = "Timeout"
           /\ settled'.rx.abandoned)
             => UNCHANGED SessionHeld]_vars

\* The entries of a table that belong to execute e, and the others.
IsEntryOf(x, e) ==
    x.owner = e /\ ("kind" \in DOMAIN x => x.kind = "exec")

OwnedBy(tbl, e) == SelectSeq(tbl, LAMBDA x : IsEntryOf(x, e))

NotOwnedBy(tbl, e) == SelectSeq(tbl, LAMBDA x : ~IsEntryOf(x, e))

\* C27: each in-flight entry owns one timer.  An execute whose promise has
\* settled has no timer armed, every entry belongs to an execute whose
\* timer is armed, and when the timer of an execute fires it rejects that
\* execute and removes that execute's entry only: every entry registered by
\* another execute is still in the table afterwards.
C27_TimerRemovesOwnEntry ==
    /\ \A e \in 1..Len(execs) : execs[e].timer => execs[e].pc = "wait"
    /\ \A i \in 1..Len(pendingCommands) :
          execs[pendingCommands[i].owner].timer
    /\ \A e \in 1..Len(execs) :
          execs[e].timer
             => LET m == waitForResponseTimeout(Cur, e)
                IN /\ m.execs[e].pc = "resErr" /\ m.execs[e].cause = "Timeout"
                   /\ OwnedBy(m.pendingCommands, e) = <<>>
                   /\ OwnedBy(m.pendingResponses, e) = <<>>
                   /\ NotOwnedBy(m.pendingCommands, e)
                        = NotOwnedBy(pendingCommands, e)
                   /\ NotOwnedBy(m.pendingResponses, e)
                        = NotOwnedBy(pendingResponses, e)

\* C28: on the Source engine a packet with id = -1 fails only the
\* authentication entry: no execute is ever rejected with AuthFailed.
C28_AuthFailureOnlyFailsAuth ==
    engine = "source" =>
        /\ \A e \in 1..Len(execs) : execs[e].cause # "AuthFailed"
        /\ ~(settled.op = "execute" /\ settled.cause = "AuthFailed")

\* C29: between callbacks (no promise job queued, no caller code running),
\* on both clients: in the Disconnected and Error states the client holds no
\* socket, the correlation table is empty, the Source receive buffer is
\* empty and no heartbeat timer is armed; and an entry is in flight only in
\* the Authenticating and Authenticated states.
C29_IdleWhenDisconnected ==
    (queue = <<>> /\ ~callerIn)
        => /\ state \in {"disconnected", "error"}
                => /\ socket = NoSocket
                   /\ pendingResponses = <<>> /\ pendingCommands = <<>>
                   /\ receiveBuffer = "empty"
                   /\ ~heartbeatInterval /\ heartbeatTimers = 0
           /\ InFlight(Cur) > 0
                => state \in {"authenticating", "authenticated"}

\* The Error state between callbacks, after a session in which an execute
\* was made has been torn down.
C29_Witness ==
    /\ queue = <<>> /\ ~callerIn
    /\ state = "error" /\ Len(execs) > 0

\* C30: a Source execute() that is accepted writes, in this order and with
\* nothing between them, the command packet {id = command_id, type 2, body
\* = command} and the terminator packet {id = terminator_id, type 0, empty
\* body}, both before its entry is registered (the table is as it was when
\* they are written, and has the new entry at its end afterwards), whatever
\* executes are in flight; and command_id differs from terminator_id, also
\* where the request id wraps.
C30_CommandThenTerminator ==
    (engine = "source" /\ isAuthenticated(Cur))
        => \A len \in CommandLens, r \in {requestId, MaxRequestId - 1,
                                          MaxRequestId} :
              LET m == executeSrc([Cur EXCEPT !.requestId = r], len)
                  x == m.execs[Len(m.execs)]
              IN x.pc = "wait"
                   => /\ m.sent =
                           <<[id |-> x.cid, type |-> SERVERDATA_EXECCOMMAND,
                              len |-> len, by |-> "execute",
                              pend |-> Len(pendingResponses)],
                             [id |-> x.tid, type |-> SERVERDATA_RESPONSE_VALUE,
                              len |-> 0, by |-> "execute",
                              pend |-> Len(pendingResponses)]>>
                      /\ x.cid = r /\ x.cid # x.tid
                      /\ Len(m.pendingResponses) = Len(pendingResponses) + 1
                      /\ m.pendingResponses[Len(m.pendingResponses)]
                           = [id |-> x.cid, terminatorId |-> x.tid,
                              responses |-> <<>>, kind |-> "exec",
                              owner |-> Len(execs) + 1]

\* A second execute() has been accepted while the first is in flight: its
\* two packets are the packets the step has sent.
C30_Witness ==
    /\ engine = "source" /\ lastCall.op = "execute" /\ lastCall.res = "pending"
    /\ Len(pendingResponses) = 2 /\ Len(sent) = 2
    /\ sent[1].type = SERVERDATA_EXECCOMMAND /\ sent[1].pend = 1
    /\ sent[2].type = SERVERDATA_RESPONSE_VALUE /\ sent[2].pend = 1

\* ---- C31
\* C31: Source framing is chunk-independent: once a stream has been
\* delivered, in whatever reads, the packets handleData has yielded are the
\* packets it yields when the whole stream arrives in a single read.
C31_ChunkIndependent ==
    (engine = "source" /\ stream = <<>> /\ received # <<>>)
        => framed = frameLoop(received, <<>>).packets

\* ---- C32
\* The bytes a read has delivered, and the buffer the framing loop starts on.
ReadData == SubSeq(received', Len(received) + 1, Len(received'))
Buffered == receiveBuffer \o ReadData
Yielded == SubSeq(framed', Len(framed) + 1, Len(framed'))

ValidSize(size) == size >= MIN_PACKET_SIZE /\ size <= MAX_PACKET_SIZE

\* C32: Source framing validates the size field.  On every read that leaves
\* at least 4 bytes buffered: a size field below 10 or above 4110 clears the
\* whole buffer and yields no packet; a size field in range yields nothing
\* and keeps the buffer until size + 4 bytes are there, and then yields a
\* packet of that size whose body has size - 10 characters and which has
\* consumed exactly size + 4 bytes: what follows them is the buffer the
\* framing goes on with.
C32_SizeValidated ==
    [][(received' # received /\ Len(Buffered) >= 4) =>
        LET size == readInt32LE(Buffered, 0)
            rest == SubSeq(Buffered, size + 5, Len(Buffered))
        IN /\ ~ValidSize(size) => receiveBuffer' = <<>> /\ Yielded = <<>>
           /\ (ValidSize(size) /\ Len(Buffered) < size + 4)
                 => receiveBuffer' = Buffered /\ Yielded = <<>>
           /\ (ValidSize(size) /\ Len(Buffered) >= size + 4)
                 => /\ Yielded # <<>>
                    /\ Yielded[1].size = size
                    /\ Len(Yielded[1].body) = size - 10
                    /\ Yielded[1].id = readInt32LE(Buffered, 4)
                    /\ Yielded[1].type = readInt32LE(Buffered, 8)
                    /\ Len(rest) < 4
                         => receiveBuffer' = rest /\ Len(Yielded) = 1
                    /\ (Len(rest) >= 4 /\ ~ValidSize(readInt32LE(rest, 0)))
                         => receiveBuffer' = <<>> /\ Len(Yielded) = 1
                    /\ (Len(rest) >= 4 /\ ValidSize(readInt32LE(rest, 0)))
                         => IF Len(rest) < readInt32LE(rest, 0) + 4
                            THEN receiveBuffer' = rest /\ Len(Yielded) = 1
                            ELSE /\ Len(Yielded) >= 2
                                 /\ Yielded[2].size = readInt32LE(rest, 0)
                                 /\ Yielded[2].id = readInt32LE(rest, 4)]_vars

\* The packet of the maximum size has been framed: size 4110, a body of
\* 4100 characters, nothing left in the buffer.
C32_Witness ==
    /\ engine = "source" /\ receiveBuffer = <<>> /\ stream = <<>>
    /\ Len(received) = MAX_PACKET_SIZE + 4
    /\ Len(framed) = 1
    /\ framed[1].size = MAX_PACKET_SIZE
    /\ Len(framed[1].body) = 4100

\* ---- C33
\* C33: the Source receive buffer is bounded.  After every handleData call the
\* buffer is shorter than 4 bytes, or it starts with a size field in
\* 10..4110 and holds fewer than size + 4 bytes: at most one partial packet,
\* never more than 4113 bytes.
C33_BufferBounded ==
    engine = "source" =>
        /\ \/ Len(receiveBuffer) < 4
           \/ /\ ValidSize(readInt32LE(receiveBuffer, 0))
              /\ Len(receiveBuffer) < readInt32LE(receiveBuffer, 0) + 4
        /\ Len(receiveBuffer) <= MAX_PACKET_SIZE + 3

\* All but the last byte of a packet of the maximum size are buffered.
C33_Witness ==
    /\ engine = "source" /\ Len(receiveBuffer) = MAX_PACKET_SIZE + 3
    /\ Len(stream) = 1 /\ framed = <<>>

\* ---- C34
\* C34: a Source execute(command) whose body is longer than 4100 bytes
\* (packet size above 4110) fails with InvalidPacket as its cause, writes
\* nothing to the stream (neither the command nor the terminator packet),
\* registers no entry, arms no timer and leaves the client Authenticated; a
\* body of exactly 4100 bytes is accepted and both packets are written.
C34_OversizeRejected ==
    (engine = "source" /\ isAuthenticated(Cur))
        => LET big == execute(Cur, MAX_PACKET_SIZE - 10 + 1)
               max == execute(Cur, MAX_PACKET_SIZE - 10)
               e == Len(execs) + 1
           IN /\ big.lastCall = [op |-> "execute", res |-> "CommandFailed",
                                 cause |-> "InvalidPacket"]
              /\ big.sent = <<>>
              /\ big.pendingResponses = pendingResponses
              /\ SubSeq(big.execs, 1, Len(execs)) = execs
              /\ Len(big.execs) = e
              /\ big.execs[e].pc = "rejected" /\ ~big.execs[e].timer
              /\ big.state = "authenticated" /\ big.socket = socket
              /\ big.emitted = <<>>
              /\ max.lastCall.res = "pending"
              /\ Len(max.sent) = 2
              /\ max.sent[1].len = MAX_PACKET_SIZE - 10
              /\ max.sent[1].type = SERVERDATA_EXECCOMMAND
              /\ max.sent[2].type = SERVERDATA_RESPONSE_VALUE
              /\ Len(max.pendingResponses) = Len(pendingResponses) + 1
              /\ max.execs[e].timer

\* An execute() with a body of 4101 bytes has been rejected while another
\* execute is in flight.
C34_Witness ==
    /\ engine = "source" /\ state = "authenticated"
    /\ lastCall = [op |-> "execute", res |-> "CommandFailed",
                   cause |-> "InvalidPacket"]
    /\ sent = <<>> /\ Len(pendingResponses) = 1
    /\ Len(execs) = 2 /\ execs[2].pc = "rejected"

\* ---- C35
\* A datagram that fails one of the validations: shorter than 7 bytes, not
\* starting with 'B', 'E', a byte other than 0xFF at offset 6, a checksum
\* that is not the CRC32 of 0xFF and the payload, or a payload type byte
\* other than 0, 1, 2.
Malformed(d) ==
    \/ Len(d) < 7
    \/ SubSeq(d, 1, 2) # <<66, 69>>
    \/ d[7] # 255
    \/ SubSeq(d, 3, 6) # calculateCRC32(<<255>> \o SubSeq(d, 8, Len(d)))
    \/ Len(d) >= 8 /\ d[8] \notin {0, 1, 2}

Defective == {d \in WireBytes : Malformed(d)}

\* C35: BattlEye inbound validation: a datagram that fails one of the
\* validations is dropped with no effect: no event is emitted, no packet is
\* sent, nothing is thrown, and the state, the correlation table, the
\* sequence counter and the rest of the client are unchanged.
C35_DefectiveDropped ==
    [][received' \in Defective
         => /\ emitted' = <<>> /\ sent' = <<>>
            /\ uncaught' = uncaught
            /\ UNCHANGED ClientState]_vars

\* ---- C36
\* C36: every inbound BattlEye datagram is handled without an exception
\* leaving the message handler, the 7-byte datagram with a correct checksum
\* and an empty payload and the 1-byte payloads of type 0, 1 and 2 included.
C36_HandlerNeverThrows ==
    [][received' # <<>> => uncaught' = "none"]_vars

\* ---- C37
\* The datagrams sendPacket builds for the non-empty payloads.
Built ==
    {[payload |-> q, bytes |-> buildPacket(q)] : q \in WirePayloads \ {<<>>}}

\* C37: BattlEye build / parse round trip: for every non-empty payload Q, the
\* datagram sendPacket builds is 'B', 'E', four checksum bytes, 0xFF and Q,
\* 7 + |Q| bytes in all, and when handleMessage receives it, it passes
\* every check and the payload handed to the dispatch is exactly Q.
C37_BuildParseRoundTrip ==
    \A b \in Built :
        /\ Len(b.bytes) = 7 + Len(b.payload)
        /\ SubSeq(b.bytes, 1, 2) = <<66, 69>>
        /\ b.bytes[7] = 255
        /\ SubSeq(b.bytes, 8, Len(b.bytes)) = b.payload
        /\ received = b.bytes => framed = <<b.payload>>

\* The command response built for the payload 01 00 41 has been received by
\* a client with that command in flight.
C37_Witness ==
    /\ \E b \in Built : b.payload = <<1, 0, 65>> /\ received = b.bytes
    /\ framed = <<<<1, 0, 65>>>>
    /\ settled.op = "none" /\ Len(execs) >= 1 /\ execs[1].rx.term

\* ---- C38
\* The login-success datagram as sendPacket builds it.
LoginResponse == buildPacket(<<0, 1>>)

\* A connect() is waiting for the verdict on its login.
AwaitingLogin ==
    /\ state = "authenticating" /\ authHandler # 0
    /\ attempts[authHandler].pc = "auth"

IdSucc(i) == IF i = MaxRequestId THEN 1 ELSE i + 1

\* C39: Source request ids.  The counter is always in 1..999999, and so is
\* every id getNextRequestId returns (never 0, never -1); the ids a step
\* allocates are the counter's value and its successors, each one more than
\* the one before except that 999999 is followed by 1 (a connect takes one,
\* an execute two); hence three ids allocated in a row (auth, command,
\* terminator) are pairwise distinct, and so are the two ids of every entry
\* in flight.
C39_RequestIds ==
    /\ [](/\ requestId \in 1..MaxRequestId
          /\ getNextRequestId(Cur).requestId = IdSucc(requestId)
          /\ LET a == requestId
                 c == getNextRequestId(Cur).requestId
                 t == getNextRequestId(getNextRequestId(Cur)).requestId
             IN /\ {a, c, t} \subseteq 1..MaxRequestId
                /\ a # c /\ c # t /\ a # t
          /\ \A i \in 1..Len(pendingResponses) :
                pendingResponses[i].kind = "exec"
                  => pendingResponses[i].terminatorId
                       = IdSucc(pendingResponses[i].id))
    /\ [][/\ requestId' \in {requestId, IdSucc(requestId),
                             IdSucc(IdSucc(requestId))}
          /\ \A i \in 1..Len(sent') :
                /\ sent'[i].id \in 1..MaxRequestId
                /\ sent'[i].id = IF i = 1 THEN requestId
                                 ELSE IdSucc(sent'[i - 1].id)
          /\ sent' # <<>> => requestId' = IdSucc(sent'[Len(sent')].id)
          /\ lastCall'.op = "execute" /\ lastCall'.res # "NotAuthenticated"
                => requestId' = IdSucc(IdSucc(requestId))]_vars

\* An execute() has taken 999999 as its command id and 1 as its terminator
\* id.
C39_Witness ==
    /\ engine = "source" /\ requestId = 2
    /\ Len(sent) = 2 /\ sent[1].id = MaxRequestId /\ sent[2].id = 1
    /\ Len(pendingResponses) = 1
    /\ pendingResponses[1].id = MaxRequestId
    /\ pendingResponses[1].terminatorId = 1

\* ---- C40
\* The packets a step has sent that carry a number taken from the counter.
Numbered(s) == SelectSeq(s, LAMBDA x : x.by \in {"execute", "heartbeat"})

\* C40: BattlEye sequence numbers.  A fresh client's counter is 0 and it is
\* always in 0..255; every execute and every heartbeat, counted together,
\* takes the counter's value for its packet and moves the counter on by one,
\* from 255 to 0; no other step moves it.  So the n-th allocation returns
\* n mod 256.
C40_SequenceNumbers ==
    /\ sequenceNumber = 0
    /\ [](sequenceNumber \in 0..255)
    /\ [][IF Numbered(sent') = <<>>
          THEN sequenceNumber' = sequenceNumber
          ELSE /\ Len(Numbered(sent')) = 1
               /\ Numbered(sent')[1].id = sequenceNumber
               /\ sequenceNumber' = IF sequenceNumber = 255 THEN 0
                                    ELSE sequenceNumber + 1]_vars

\* The 256th allocation, a heartbeat's, has returned 255 and the counter is
\* back at 0, with an execute in flight.
C40_Witness ==
    /\ engine = "battleye" /\ sequenceNumber = 0
    /\ Len(sent) = 1 /\ sent[1].by = "heartbeat" /\ sent[1].id = 255
    /\ pendingCommands # <<>>

====
